---- MODULE Spec2Model ----
(***************************************************************************)
(* Model of the Cursor agent session of yet-another-opencode-cursor-auth:  *)
(* AgentServiceClient (chatStream, handleKvMessage, sendXResult,           *)
(* bidiAppend) and the tool bridge (sendToolResultsToCursor,               *)
(* cleanupExpiredSessions).                                                *)
(*                                                                         *)
(* chatStream is an async generator: it runs only between a next() of its  *)
(* consumer and the following yield, and it gives up control at every      *)
(* await (the BidiAppend fetch, the RunSSE fetch, reader.read()).  The     *)
(* sendXResult methods are ordinary async methods of the same client       *)
(* object and give up control at each of their two BidiAppend awaits.      *)
(* One model step is the code that runs between two such suspension        *)
(* points.                                                                 *)
(***************************************************************************)
EXTENDS Integers, Sequences, FiniteSets, TLC

----------------------------------------------------------------------------
(* Bounds of the model *)

MaxReads == 3
MaxToolReads == 2
MaxTaskStarts == 2
MaxFailures == 1
MaxMsgs == 2
MaxBeatReads == 1005
MaxSessions == 2
MaxFrames == 2
MaxFetches == 2
MaxPieces == 2

----------------------------------------------------------------------------
(* Program constants *)

HEARTBEAT_MAX_PROGRESS == 1000
HEARTBEAT_MAX_NOPROGRESS == 1000

----------------------------------------------------------------------------
(* Values *)

Null == 0
RequestIdValue == 1
Absent == "absent"
NoText == "none"

Tasks == {1, 2}
Execs == {1, 2}
UnknownToolCallId == 9
ToolCallIds == Execs \cup {UnknownToolCallId}
KvIds == {0, 7}
BlobIds == {"b1", "b2"}

(* What analyzeBlobData finds in a blob.  A blob is named by a token; the   *)
(* token "E" is the blob of zero bytes.                                     *)
BlobAnalysisOf(d) ==
  CASE d = "A1" -> [type |-> "json", role |-> "assistant", contentKind |-> "string",
                    content |-> "hello", parts |-> <<>>, messages |-> <<>>, protoFields |-> <<>>]
    [] d = "A2" -> [type |-> "json", role |-> "assistant", contentKind |-> "array",
                    content |-> "",
                    parts |-> << [kind |-> "string", ptype |-> "", text |-> "p1"],
                                 [kind |-> "object", ptype |-> "image", text |-> "img"],
                                 [kind |-> "object", ptype |-> "text", text |-> "p2"] >>,
                    messages |-> <<>>, protoFields |-> <<>>]
    [] d = "AM" -> [type |-> "json", role |-> "none", contentKind |-> "null",
                    content |-> "", parts |-> <<>>,
                    messages |-> << [role |-> "user", contentKind |-> "string", content |-> "q"],
                                    [role |-> "assistant", contentKind |-> "string", content |-> "m1"] >>,
                    protoFields |-> <<>>]
    [] d = "AE" -> [type |-> "json", role |-> "assistant", contentKind |-> "string",
                    content |-> "", parts |-> <<>>, messages |-> <<>>, protoFields |-> <<>>]
    [] d = "U"  -> [type |-> "json", role |-> "user", contentKind |-> "string",
                    content |-> "question", parts |-> <<>>, messages |-> <<>>, protoFields |-> <<>>]
    [] d = "PB" -> [type |-> "protobuf", role |-> "none", contentKind |-> "null",
                    content |-> "", parts |-> <<>>, messages |-> <<>>,
                    protoFields |-> << [num |-> 1, text |-> "longtext", len |-> 60, first |-> "l"],
                                       [num |-> 2, text |-> "short", len |-> 5, first |-> "s"],
                                       [num |-> 3, text |-> "{json}", len |-> 70, first |-> "{"],
                                       [num |-> 4, text |-> NoText, len |-> 80, first |-> ""] >>]
    [] d = "E"  -> [type |-> "text", role |-> "none", contentKind |-> "null",
                    content |-> "", parts |-> <<>>, messages |-> <<>>, protoFields |-> <<>>]
    [] OTHER    -> [type |-> "binary", role |-> "none", contentKind |-> "null",
                    content |-> "", parts |-> <<>>, messages |-> <<>>, protoFields |-> <<>>]

RECURSIVE PartContents(_)
PartContents(parts) ==
  IF parts = <<>> THEN <<>>
  ELSE LET p == Head(parts)
           c == IF p.kind = "string" THEN <<p.text>>
                ELSE IF p.ptype = "text" THEN <<p.text>>
                ELSE <<>>
       IN c \o PartContents(Tail(parts))

RECURSIVE MessageContents(_)
MessageContents(msgs) ==
  IF msgs = <<>> THEN <<>>
  ELSE LET m == Head(msgs)
           c == IF m.role = "assistant" /\ m.contentKind = "string" THEN <<m.content>> ELSE <<>>
       IN c \o MessageContents(Tail(msgs))

RECURSIVE ProtoContents(_)
ProtoContents(fields) ==
  IF fields = <<>> THEN <<>>
  ELSE LET f == Head(fields)
           c == IF f.text # NoText /\ f.len > 50 /\ f.first \notin {"{", "["}
                THEN <<f.text>> ELSE <<>>
       IN c \o ProtoContents(Tail(fields))

(* The contents handleKvMessage pushes onto pendingAssistantBlobs for one   *)
(* set_blob_args, in push order.                                            *)
AssistantContents(d) ==
  LET a == BlobAnalysisOf(d) IN
  IF a.type = "json" THEN
       (IF a.role = "assistant"
        THEN (IF a.contentKind = "string" /\ a.content # "" THEN <<a.content>>
              ELSE IF a.contentKind = "array" THEN PartContents(a.parts)
              ELSE <<>>)
        ELSE <<>>)
       \o MessageContents(a.messages)
  ELSE IF a.type = "protobuf" THEN ProtoContents(a.protoFields)
  ELSE <<>>

----------------------------------------------------------------------------
(* Inbound messages.  A frame is a trailer or a sequence of AgentServerMessage *)
(* fields; a field is [num, upds, exec, kv, aborts, bad], bad when its payload *)
(* has a malformed varint or a truncated LEN payload:                          *)
(*   num 1  interaction_update, upds = its fields in wire order               *)
(*   num 2  exec_server_message, exec = the exec id parseExecServerMessage    *)
(*          finds, Null when it returns null (unknown exec variant)           *)
(*   num 3  conversation_checkpoint_update                                    *)
(*   num 4  kv_server_message, kv = the message as it is on the wire          *)
(*   num 5  exec_server_control_message, aborts = number of abort fields      *)
(*   num 7  interaction_query                                                 *)

NoKv == [id |-> 0, kind |-> "none", blobId |-> Absent, blobData |-> Absent]

IU(upds) ==
  [num |-> 1, upds |-> upds, exec |-> Null, kv |-> NoKv, aborts |-> 0,
   bad |-> FALSE]
ExecMsg(e) ==
  [num |-> 2, upds |-> <<>>, exec |-> e, kv |-> NoKv, aborts |-> 0,
   bad |-> FALSE]
Checkpoint ==
  [num |-> 3, upds |-> <<>>, exec |-> Null, kv |-> NoKv, aborts |-> 0,
   bad |-> FALSE]
KvMsg(kv) ==
  [num |-> 4, upds |-> <<>>, exec |-> Null, kv |-> kv, aborts |-> 0,
   bad |-> FALSE]
Control(n) ==
  [num |-> 5, upds |-> <<>>, exec |-> Null, kv |-> NoKv, aborts |-> n,
   bad |-> FALSE]
Query ==
  [num |-> 7, upds |-> <<>>, exec |-> Null, kv |-> NoKv, aborts |-> 0,
   bad |-> FALSE]

(* A field whose payload holds a malformed varint or a truncated LEN        *)
(* payload, and a frame whose server message does.                         *)
BadIU == [IU(<<>>) EXCEPT !.bad = TRUE]

(* parse_fields fails on a malformed varint or a truncated LEN payload. *)
parseProtoFieldsThrows(malformed) == malformed

(* Fields of an InteractionUpdate: f is the field number; text is the inner *)
(* string of a text_delta / token_delta (Absent when the inner field is not *)
(* on the wire); ok says that parseToolCallStartedUpdate finds a tool call; *)
(* idle says that the idle limit has passed when the heartbeat is handled.  *)
Upd(f, text, ok, idle) == [f |-> f, text |-> text, ok |-> ok, idle |-> idle]
TextDelta(t) == Upd(1, t, FALSE, FALSE)
Started == Upd(2, Absent, TRUE, FALSE)
Completed == Upd(3, Absent, TRUE, FALSE)
Partial == Upd(7, Absent, TRUE, FALSE)
TokenDelta(t) == Upd(8, t, FALSE, FALSE)
Heartbeat(idle) == Upd(13, Absent, FALSE, idle)
TurnEnded == Upd(14, Absent, FALSE, FALSE)

(* parseInteractionUpdate: one result per InteractionUpdate, whatever the   *)
(* number of fields it carries.                                             *)
RECURSIVE ParseIU(_, _)
ParseIU(upds, acc) ==
  IF upds = <<>> THEN acc
  ELSE LET u == Head(upds)
           next ==
             IF u.f \in {1, 8} THEN
                 (IF u.text # Absent THEN [acc EXCEPT !.text = u.text] ELSE acc)
             ELSE IF u.f = 2 THEN
                 (IF u.ok THEN [acc EXCEPT !.toolCallStarted = TRUE] ELSE acc)
             ELSE IF u.f = 3 THEN
                 (IF u.ok THEN [acc EXCEPT !.toolCallCompleted = TRUE] ELSE acc)
             ELSE IF u.f = 7 THEN [acc EXCEPT !.partialToolCall = TRUE]
             ELSE IF u.f = 14 THEN [acc EXCEPT !.isComplete = TRUE]
             ELSE IF u.f = 13 THEN [acc EXCEPT !.isHeartbeat = TRUE, !.idle = u.idle]
             ELSE acc
       IN ParseIU(Tail(upds), next)

parseInteractionUpdate(upds) ==
  ParseIU(upds, [text |-> Absent, isComplete |-> FALSE, isHeartbeat |-> FALSE,
                 toolCallStarted |-> FALSE, toolCallCompleted |-> FALSE,
                 partialToolCall |-> FALSE, idle |-> FALSE])

(* parseKvServerMessage: the id, the kind and the blob fields that are on   *)
(* the wire; a field that is not on the wire stays undefined (Absent).      *)
parseKvServerMessage(kv) ==
  [id |-> kv.id,
   messageType |-> IF kv.kind = "get" THEN "get_blob_args"
                   ELSE IF kv.kind = "set" THEN "set_blob_args" ELSE "unknown",
   blobId |-> IF kv.kind \in {"get", "set"} THEN kv.blobId ELSE Absent,
   blobData |-> IF kv.kind = "set" THEN kv.blobData ELSE Absent]

NoMsg == [id |-> 0, messageType |-> "unknown", blobId |-> Absent, blobData |-> Absent]

(* The steps chatStream takes for one frame, in program order.              *)
(*   yield: yield chunk; after the consumer's next(), hasStreamedText is set *)
(*          when text is TRUE and markProgress() runs when progress is TRUE *)
(*   end:   turnEnded = true                                                *)
(*   hb:    the heartbeat branch                                            *)
(*   kv:    handleKvMessage(kv)                                             *)
(*   progress: markProgress() alone                                         *)
(*   brk:   the end of a data frame: break out of the frame loop when       *)
(*          turnEnded is set, dropping the frames left in the buffer        *)
(*   throw: an exception outside the per-field try: the finally block and   *)
(*          the outer catch, which yields an error chunk                    *)
(*   fin:   the finally block of the reader loop, then the generator ends   *)
(*   ret:   the generator ends                                              *)
Chunk(type, arg) == [type |-> type, arg |-> arg]
Op(op, chunk, text, progress, idle, kv) ==
  [op |-> op, chunk |-> chunk, text |-> text, progress |-> progress, idle |-> idle, kv |-> kv]
NoChunk == Chunk("none", "")
YieldOp(chunk, text, progress) == Op("yield", chunk, text, progress, FALSE, NoMsg)
EndOp == Op("end", NoChunk, FALSE, FALSE, FALSE, NoMsg)
HbOp(idle) == Op("hb", NoChunk, FALSE, FALSE, idle, NoMsg)
KvOp(msg) == Op("kv", NoChunk, FALSE, FALSE, FALSE, msg)
ProgressOp == Op("progress", NoChunk, FALSE, TRUE, FALSE, NoMsg)
BreakOp == Op("brk", NoChunk, FALSE, FALSE, FALSE, NoMsg)
ThrowOp == Op("throw", NoChunk, FALSE, FALSE, FALSE, NoMsg)
FinOp == Op("fin", NoChunk, FALSE, FALSE, FALSE, NoMsg)
RetOp == Op("ret", NoChunk, FALSE, FALSE, FALSE, NoMsg)

(* A variant that ignores turn_ended. *)
InteractionUpdateOpsNoEnd(parsed) ==
     (IF parsed.text \notin {Absent, ""}
      THEN <<YieldOp(Chunk("text", parsed.text), TRUE, TRUE)>> ELSE <<>>)
  \o (IF parsed.toolCallStarted
      THEN <<YieldOp(Chunk("tool_call_started", ""), FALSE, TRUE)>> ELSE <<>>)
  \o (IF parsed.toolCallCompleted
      THEN <<YieldOp(Chunk("tool_call_completed", ""), FALSE, TRUE)>> ELSE <<>>)
  \o (IF parsed.partialToolCall
      THEN <<YieldOp(Chunk("partial_tool_call", ""), FALSE, TRUE)>> ELSE <<>>)
  \o (IF parsed.isHeartbeat THEN <<HbOp(parsed.idle)>> ELSE <<>>)

InteractionUpdateOps(parsed) ==
     (IF parsed.text \notin {Absent, ""}
      THEN <<YieldOp(Chunk("text", parsed.text), TRUE, TRUE)>> ELSE <<>>)
  \o (IF parsed.toolCallStarted
      THEN <<YieldOp(Chunk("tool_call_started", ""), FALSE, TRUE)>> ELSE <<>>)
  \o (IF parsed.toolCallCompleted
      THEN <<YieldOp(Chunk("tool_call_completed", ""), FALSE, TRUE)>> ELSE <<>>)
  \o (IF parsed.partialToolCall
      THEN <<YieldOp(Chunk("partial_tool_call", ""), FALSE, TRUE)>> ELSE <<>>)
  \o (IF parsed.isComplete THEN <<EndOp>> ELSE <<>>)
  \o (IF parsed.isHeartbeat THEN <<HbOp(parsed.idle)>> ELSE <<>>)

RECURSIVE AbortOps(_)
AbortOps(n) ==
  IF n = 0 THEN <<>>
  ELSE <<YieldOp(Chunk("exec_server_abort", ""), FALSE, FALSE)>> \o AbortOps(n - 1)

(* A variant in which the generator returns after a checkpoint. *)
FieldOpsCheckpointReturns(field) ==
  IF field.num = 1 THEN
      (IF parseProtoFieldsThrows(field.bad)
       THEN <<YieldOp(Chunk("error", "field"), FALSE, FALSE)>>
       ELSE InteractionUpdateOps(parseInteractionUpdate(field.upds)))
  ELSE IF field.num = 3 THEN <<YieldOp(Chunk("checkpoint", ""), FALSE, TRUE), RetOp>>
  ELSE IF field.num = 2 THEN
      (IF field.exec # Null
       THEN <<YieldOp(Chunk("exec_request", field.exec), FALSE, TRUE)>> ELSE <<>>)
  ELSE IF field.num = 4 THEN <<KvOp(parseKvServerMessage(field.kv))>>
  ELSE IF field.num = 5 THEN AbortOps(field.aborts) \o <<ProgressOp>>
  ELSE IF field.num = 7 THEN <<YieldOp(Chunk("interaction_query", ""), FALSE, TRUE)>>
  ELSE <<>>

(* A variant in which an interaction query does not mark progress. *)
FieldOpsQueryNoProgress(field) ==
  IF field.num = 1 THEN
      (IF parseProtoFieldsThrows(field.bad)
       THEN <<YieldOp(Chunk("error", "field"), FALSE, FALSE)>>
       ELSE InteractionUpdateOps(parseInteractionUpdate(field.upds)))
  ELSE IF field.num = 3 THEN <<YieldOp(Chunk("checkpoint", ""), FALSE, TRUE)>>
  ELSE IF field.num = 2 THEN
      (IF field.exec # Null
       THEN <<YieldOp(Chunk("exec_request", field.exec), FALSE, TRUE)>> ELSE <<>>)
  ELSE IF field.num = 4 THEN <<KvOp(parseKvServerMessage(field.kv))>>
  ELSE IF field.num = 5 THEN AbortOps(field.aborts) \o <<ProgressOp>>
  ELSE IF field.num = 7 THEN <<YieldOp(Chunk("interaction_query", ""), FALSE, FALSE)>>
  ELSE <<>>

FieldOps(field) ==
  IF field.num = 1 THEN
      (IF parseProtoFieldsThrows(field.bad)
       THEN <<YieldOp(Chunk("error", "field"), FALSE, FALSE)>>
       ELSE InteractionUpdateOps(parseInteractionUpdate(field.upds)))
  ELSE IF field.num = 3 THEN <<YieldOp(Chunk("checkpoint", ""), FALSE, TRUE)>>
  ELSE IF field.num = 2 THEN
      (IF field.exec # Null
       THEN <<YieldOp(Chunk("exec_request", field.exec), FALSE, TRUE)>> ELSE <<>>)
  ELSE IF field.num = 4 THEN <<KvOp(parseKvServerMessage(field.kv))>>
  ELSE IF field.num = 5 THEN AbortOps(field.aborts) \o <<ProgressOp>>
  ELSE IF field.num = 7 THEN <<YieldOp(Chunk("interaction_query", ""), FALSE, TRUE)>>
  ELSE <<>>

RECURSIVE FrameOps(_)
FrameOps(fields) ==
  IF fields = <<>> THEN <<>> ELSE FieldOps(Head(fields)) \o FrameOps(Tail(fields))

(* A trailer frame: status is "none" (no grpc-status header), "zero" or     *)
(* "nonzero".                                                               *)
TrailerOps(status) ==
  IF status = "nonzero" THEN <<YieldOp(Chunk("error", "grpc"), FALSE, FALSE)>> ELSE <<>>

(* A frame of the response body: flags 128 marks a trailer. *)
DataFrame(fields) == [flags |-> 0, fields |-> fields, status |-> "none"]
BadFrame == [flags |-> 0, fields |-> <<>>, status |-> "malformed"]
Trailer(status) == [flags |-> 128, fields |-> <<>>, status |-> status]

(* The steps for the frames that one reader.read() completes in the buffer. *)
RECURSIVE BufferOps(_)
BufferOps(frames) ==
  IF frames = <<>> THEN <<>>
  ELSE LET f == Head(frames) IN
       (IF f.flags = 128 THEN TrailerOps(f.status)
        ELSE IF parseProtoFieldsThrows(f.status = "malformed") THEN <<ThrowOp>>
        ELSE FrameOps(f.fields) \o <<BreakOp>>)
       \o BufferOps(Tail(frames))

----------------------------------------------------------------------------
(* State *)

VARIABLES
  currentRequestId,       \* AgentServiceClient.currentRequestId (Null = null)
  currentAppendSeqno,     \* AgentServiceClient.currentAppendSeqno
  blobStore,              \* AgentServiceClient.blobStore: blob id -> blob, Absent = no entry
  pendingAssistantBlobs,  \* AgentServiceClient.pendingAssistantBlobs (contents, in push order)
  gpc,                    \* where the chatStream generator is suspended
  appendSeqno,            \* chatStream's local appendSeqno
  turnEnded,              \* chatStream's local turnEnded
  hasStreamedText,        \* chatStream's local hasStreamedText
  heartbeatSinceProgress, \* chatStream's local heartbeatSinceProgress
  hasProgress,            \* chatStream's local hasProgress
  todo,                   \* the steps left for the frame in hand (head = the step in hand)
  gw,                     \* index in wire of the generator's BidiAppend in flight
  wire,                   \* the BidiAppend calls issued, in issue order
  out,                    \* the chunks yielded by chatStream, in order
  kvSeen,                 \* the get/set kv_server_messages handled so far, in order
  pendingExecs,           \* SessionLike.pendingExecs (keys; tool call id = exec id)
  inMap,                  \* the session is in the session map
  sessState,              \* SessionLike.state
  tasks,                  \* the running sendToolResultsToCursor calls
  reads, starts, failures, \* budget counters of the bounded model
  requestId,              \* chatStream's local requestId (the number of the call)
  aborted,                \* controller.signal.aborted: the 120 s timer has fired
  inbox,                  \* the frames reader.read() has delivered to this call, in order
  peerPc, peerSeqno,      \* a second chatStream call on the same client: where it is, its appendSeqno
  input, pos,             \* the bytes of a response body and how many of them were delivered
  buffer, parsedFrames,   \* the reader's buffer and the frames cut from it so far
  stored,                 \* the OAuth credential the host keeps for the provider
  fetches,                \* the running calls of the loader's fetch
  refreshLog,             \* the HTTP refresh calls issued, in issue order
  apiLog,                 \* the Cursor calls issued, in issue order
  fetchStarts,            \* budget counter of the bounded model
  ppc,                    \* where the waitForResult call is
  maxAttempts, attempt,   \* waitForResult's locals maxAttempts and attempt
  consecutiveErrors,      \* waitForResult's local consecutiveErrors
  result,                 \* what waitForResult returned
  polls, streak, lastAnswer, \* the polls made, the failed polls in a row, the last answer
  arg, val, cpc           \* a computation: its arguments, the values computed, its place

genVars == <<gpc, appendSeqno, turnEnded, hasStreamedText, heartbeatSinceProgress,
             hasProgress, todo, gw>>
clientVars == <<currentRequestId, currentAppendSeqno, blobStore, pendingAssistantBlobs>>
bridgeVars == <<pendingExecs, inMap, sessState, tasks>>
vars == <<currentRequestId, currentAppendSeqno, blobStore, pendingAssistantBlobs,
          gpc, appendSeqno, turnEnded, hasStreamedText, heartbeatSinceProgress,
          hasProgress, todo, gw, wire, out, kvSeen, pendingExecs, inMap, sessState,
          tasks, reads, starts, failures, requestId, aborted, inbox, peerPc, peerSeqno,
          input, pos, buffer, parsedFrames, stored, fetches, refreshLog, apiLog,
          fetchStarts, ppc, maxAttempts, attempt, consecutiveErrors, result, polls,
          streak, lastAnswer, arg, val, cpc>>

callVars == <<requestId, aborted, inbox>>
peerVars == <<peerPc, peerSeqno>>
frameVars == <<input, pos, buffer, parsedFrames>>
pluginVars == <<stored, fetches, refreshLog, apiLog, fetchStarts>>
pollVars == <<ppc, maxAttempts, attempt, consecutiveErrors, result, polls, streak,
             lastAnswer>>
calcVars == <<arg, val, cpc>>
extVars == <<pluginVars, pollVars, calcVars>>
otherVars == <<peerVars, frameVars, extVars>>
chatVars == <<clientVars, genVars, wire, out, kvSeen, bridgeVars, reads, starts, failures,
              callVars, peerVars, frameVars>>

Requests == {1, 2}

(* An OAuthAuthDetails record: access and refresh tokens are numbered by   *)
(* the refresh call that gave them (0 = the tokens of the login); expired  *)
(* says that expires <= Date.now() + 60 s.                                 *)
Credential(n, expired) == [access |-> n, refresh |-> n, expired |-> expired]

(* A call of the loader's fetch: rec is its authRecord, rcall and call the *)
(* places in refreshLog and apiLog of its requests, calls the number of    *)
(* Cursor calls it has made and status the status of the response it gave  *)
(* back to its caller.                                                     *)
IdleFetch ==
  [pc |-> "idle", rec |-> Credential(0, FALSE), rcall |-> 0, call |-> 0, calls |-> 0,
   status |-> 0]

IdleTask ==
  [pc |-> "idle", msgs |-> <<>>, processedAny |-> FALSE, w |-> 0, direct |-> FALSE,
   dropped |-> 0]

StartState ==
  /\ currentRequestId = Null
  /\ currentAppendSeqno = 0
  /\ blobStore = [b \in BlobIds |-> Absent]
  /\ pendingAssistantBlobs = <<>>
  /\ gpc = "init"
  /\ appendSeqno = 0
  /\ turnEnded = FALSE
  /\ hasStreamedText = FALSE
  /\ heartbeatSinceProgress = 0
  /\ hasProgress = FALSE
  /\ todo = <<>>
  /\ gw = 0
  /\ wire = <<>>
  /\ out = <<>>
  /\ kvSeen = <<>>
  /\ pendingExecs = {}
  /\ inMap = TRUE
  /\ sessState = "running"
  /\ tasks = [t \in Tasks |-> IdleTask]
  /\ reads = 0
  /\ starts = 0
  /\ failures = 0
  /\ requestId = Null
  /\ aborted = FALSE
  /\ inbox = <<>>
  /\ peerPc = "init"
  /\ peerSeqno = 0
  /\ pos = 0
  /\ buffer = <<>>
  /\ parsedFrames = <<>>
  /\ stored = Credential(0, FALSE)
  /\ fetches = [r \in Requests |-> IdleFetch]
  /\ refreshLog = <<>>
  /\ apiLog = <<>>
  /\ fetchStarts = 0
  /\ ppc = "idle"
  /\ maxAttempts = 0
  /\ attempt = 0
  /\ consecutiveErrors = 0
  /\ result = "none"
  /\ polls = 0
  /\ streak = 0
  /\ lastAnswer = "none"
  /\ val = [a \in {} |-> 0]
  /\ cpc = "start"

NoArg == [a \in {} |-> 0]

Init == StartState /\ input = <<>> /\ arg = NoArg

----------------------------------------------------------------------------
(* bidiAppend: the call is on the wire when fetch() is called; its response *)
(* arrives in a later step.                                                 *)

WireEntry(rid, seqno, kind, id, data) ==
  [rid |-> rid, seqno |-> seqno, kind |-> kind, id |-> id, data |-> data,
   te |-> turnEnded, st |-> "inflight"]

bidiAppend(w, rid, seqno, kind, id, data) ==
  Append(w, WireEntry(rid, seqno, kind, id, data))

Settle(w, i, st) == [w EXCEPT ![i].st = st]

----------------------------------------------------------------------------
(* chatStream *)

(* A variant that yields done before the recovered blobs and again after. *)
EpilogueDoneTwice(hasText, blobs) ==
     <<YieldOp(Chunk("done", ""), FALSE, FALSE)>>
  \o (IF ~hasText /\ Len(blobs) > 0
      THEN [i \in 1..Len(blobs) |-> YieldOp(Chunk("kv_blob_assistant", blobs[i]), FALSE, FALSE)]
      ELSE <<>>)
  \o <<YieldOp(Chunk("done", ""), FALSE, FALSE), FinOp>>

(* A variant that emits the recovered blobs whether or not text was streamed. *)
EpilogueAlways(hasText, blobs) ==
     [i \in 1..Len(blobs) |-> YieldOp(Chunk("kv_blob_assistant", blobs[i]), FALSE, FALSE)]
  \o <<YieldOp(Chunk("done", ""), FALSE, FALSE), FinOp>>

(* The clean exit after the reader loop, entered with turnEnded = true.     *)
Epilogue(hasText, blobs) ==
     (IF ~hasText /\ Len(blobs) > 0
      THEN [i \in 1..Len(blobs) |-> YieldOp(Chunk("kv_blob_assistant", blobs[i]), FALSE, FALSE)]
      ELSE <<>>)
  \o <<YieldOp(Chunk("done", ""), FALSE, FALSE), FinOp>>

(* handleKvMessage sends a reply (and awaits it) in these two cases only.   *)
KvReplies(kv) ==
  \/ kv.messageType = "get_blob_args" /\ kv.blobId # Absent
  \/ kv.messageType = "set_blob_args" /\ kv.blobId # Absent /\ kv.blobData # Absent

SeenKv(seen, kv) ==
  IF kv.messageType \in {"get_blob_args", "set_blob_args"} THEN Append(seen, kv) ELSE seen

(* A variant that closes at the second heartbeat without progress. *)
HeartbeatClosesEarly(n, progressSeen, idle) ==
  n >= 2 \/ idle

(* The heartbeat branch closes the stream when the beats since the last     *)
(* progress reach the limit of the phase or the idle time has passed.       *)
HeartbeatCloses(n, progressSeen, idle) ==
  n >= (IF progressSeen THEN HEARTBEAT_MAX_PROGRESS ELSE HEARTBEAT_MAX_NOPROGRESS) \/ idle

ErrorThenReturn == <<YieldOp(Chunk("error", "stream"), FALSE, FALSE), RetOp>>

(* The generator runs, without giving up control, over the steps that       *)
(* neither yield nor await.  L holds its locals.                            *)
RECURSIVE Skip(_)
Skip(L) ==
  IF L.todo = <<>> THEN
      (IF L.turnEnded THEN [L EXCEPT !.todo = Epilogue(L.hasText, L.blobs)] ELSE L)
  ELSE
    LET o == Head(L.todo)
        rest == Tail(L.todo)
    IN CASE o.op = "end" -> Skip([L EXCEPT !.turnEnded = TRUE, !.todo = rest])
         [] o.op = "progress" ->
              Skip([L EXCEPT !.hsp = 0, !.hasProgress = TRUE, !.todo = rest])
         [] o.op = "hb" ->
              LET n == L.hsp + 1
              IN IF HeartbeatCloses(n, L.hasProgress, o.idle)
                 THEN Skip([L EXCEPT !.hsp = n, !.turnEnded = TRUE, !.todo = rest])
                 ELSE [L EXCEPT !.hsp = n,
                                !.todo = <<YieldOp(Chunk("heartbeat", ""), FALSE, FALSE)>> \o rest]
         [] o.op = "throw" -> [L EXCEPT !.todo = ErrorThenReturn, !.cleared = TRUE]
         [] o.op = "brk" ->
              Skip([L EXCEPT !.todo = IF L.turnEnded THEN <<>> ELSE rest])
         [] o.op = "kv" ->
              IF KvReplies(o.kv) THEN L
              ELSE Skip([L EXCEPT !.todo = rest, !.seen = SeenKv(L.seen, o.kv)])
         [] OTHER -> L

Locals(ops) ==
  [todo |-> ops, turnEnded |-> turnEnded, hsp |-> heartbeatSinceProgress,
   hasProgress |-> hasProgress, hasText |-> hasStreamedText,
   blobs |-> pendingAssistantBlobs, seen |-> kvSeen, cleared |-> FALSE]

(* The consumer of the chunks (the OpenAI bridge) registers an exec request *)
(* in pendingExecs when it is given the exec_request chunk.                 *)
RegisterExec(pend, chunk) ==
  IF chunk.type = "exec_request" /\ inMap THEN pend \cup {chunk.arg} ELSE pend

(* Run the generator from locals L0 up to its next suspension point.        *)
(* w, seq, cur and rid are the wire log, the local appendSeqno,             *)
(* this.currentAppendSeqno and this.currentRequestId at that moment.        *)
Continue(L0, w, seq, cur, rid) ==
  LET L == Skip(L0)
      id == IF L.cleared THEN Null ELSE rid
  IN
  /\ turnEnded' = L.turnEnded
  /\ heartbeatSinceProgress' = L.hsp
  /\ hasProgress' = L.hasProgress
  /\ hasStreamedText' = L.hasText
  /\ appendSeqno' = seq
  /\ currentAppendSeqno' = cur
  /\ todo' = L.todo
  /\ IF L.todo = <<>> THEN
         /\ gpc' = "awaitRead"
         /\ wire' = w /\ gw' = 0 /\ out' = out /\ kvSeen' = L.seen
         /\ blobStore' = blobStore /\ pendingAssistantBlobs' = L.blobs
         /\ currentRequestId' = id
         /\ UNCHANGED <<pendingExecs, sessState>>
     ELSE LET o == Head(L.todo) IN
       CASE o.op = "yield" ->
              /\ gpc' = "yield"
              /\ out' = Append(out, o.chunk)
              /\ pendingExecs' = RegisterExec(pendingExecs, o.chunk)
              /\ sessState' = IF o.chunk.type = "exec_request" /\ inMap
                              THEN "waiting_tool" ELSE sessState
              /\ wire' = w /\ gw' = 0 /\ kvSeen' = L.seen
              /\ blobStore' = blobStore /\ pendingAssistantBlobs' = L.blobs
              /\ currentRequestId' = id
         [] o.op = "kv" ->
              /\ gpc' = "awaitKv"
              /\ kvSeen' = Append(L.seen, o.kv)
              /\ IF o.kv.messageType = "get_blob_args"
                 THEN /\ wire' = bidiAppend(w, requestId, seq, "get_blob_result",
                                            o.kv.id, blobStore[o.kv.blobId])
                      /\ blobStore' = blobStore
                      /\ pendingAssistantBlobs' = L.blobs
                 ELSE /\ wire' = bidiAppend(w, requestId, seq, "set_blob_result",
                                            o.kv.id, Absent)
                      /\ blobStore' = [blobStore EXCEPT ![o.kv.blobId] = o.kv.blobData]
                      /\ pendingAssistantBlobs' = L.blobs \o AssistantContents(o.kv.blobData)
              /\ gw' = Len(w) + 1
              /\ out' = out
              /\ currentRequestId' = id
              /\ UNCHANGED <<pendingExecs, sessState>>
         [] o.op = "fin" ->
              /\ gpc' = "returned"
              /\ currentRequestId' = Null
              /\ wire' = w /\ gw' = 0 /\ out' = out /\ kvSeen' = L.seen
              /\ blobStore' = blobStore /\ pendingAssistantBlobs' = L.blobs
              /\ UNCHANGED <<pendingExecs, sessState>>
         [] OTHER ->
              /\ gpc' = "returned"
              /\ currentRequestId' = id
              /\ wire' = w /\ gw' = 0 /\ out' = out /\ kvSeen' = L.seen
              /\ blobStore' = blobStore /\ pendingAssistantBlobs' = L.blobs
              /\ UNCHANGED <<pendingExecs, sessState>>

(* The frames the server sends in this model: ToolFrames while tool      *)
(* results are sent, StreamFrames for the event stream alone, KvFrames for *)
(* the blob requests alone.                                                *)
Kv(i, kind, b, d) == [id |-> i, kind |-> kind, blobId |-> b, blobData |-> d]

KvDatas == {"E", "A1", "U"}
KvMessages ==
       { Kv(i, "get", b, Absent) : i \in KvIds, b \in BlobIds }
  \cup { Kv(i, "set", b, d) : i \in KvIds, b \in BlobIds, d \in KvDatas \cup {Absent} }
  \cup { NoKv }

KvFrames == { <<KvMsg(m)>> : m \in KvMessages } \cup { <<IU(<<TurnEnded>>)>> }

ToolFrames ==
  { <<ExecMsg(1)>>, <<ExecMsg(2)>>, <<KvMsg(Kv(7, "get", "b1", Absent))>>,
    <<IU(<<TurnEnded>>)>> }

StreamFrames ==
       { <<IU(u)>> : u \in { <<TextDelta("t1")>>, <<TokenDelta("")>>, <<Started>>,
                             <<Heartbeat(FALSE)>>, <<Heartbeat(TRUE)>>, <<TurnEnded>>,
                             <<TextDelta("t1"), TurnEnded>> } }
  \cup { <<ExecMsg(e)>> : e \in {1, Null} }
  \cup { <<Checkpoint>>, <<Control(1)>> }
  \cup { <<KvMsg(Kv(7, "set", "b1", "A1"))>>, <<KvMsg(Kv(0, "set", "b2", "A2"))>>,
         <<KvMsg(Kv(7, "set", "b1", "U"))>> }
  \cup { <<Checkpoint, ExecMsg(1)>>, <<IU(<<TurnEnded>>), ExecMsg(2)>> }

TrailerStatuses == {"none", "zero", "nonzero"}

(* A stream of heartbeats: the server sends a text event as its first frame *)
(* or after three frames, and heartbeats otherwise.                         *)
BeatFrames == { <<IU(<<TextDelta("t1")>>)>>, <<IU(<<Heartbeat(FALSE)>>)>>,
                <<IU(<<Heartbeat(TRUE)>>)>> }
TextReadsAt == {0, 3}

(* Reads that complete two frames; the text "late" is sent in no other frame. *)
StreamBuffers ==
  { << DataFrame(<<IU(<<TurnEnded>>)>>), DataFrame(<<IU(<<TextDelta("late")>>)>>) >>,
    << Trailer("nonzero"), DataFrame(<<IU(<<TextDelta("t1")>>)>>) >>,
    << DataFrame(<<Checkpoint>>), DataFrame(<<ExecMsg(1)>>) >> }

(* The first next(): chatStream runs up to the await of its first BidiAppend. *)
StartCall ==
  /\ requestId' = requestId + 1
  /\ aborted' = FALSE
  /\ inbox' = <<>>
  /\ currentRequestId' = requestId + 1
  /\ currentAppendSeqno' = 0
  /\ appendSeqno' = 1
  /\ heartbeatSinceProgress' = 0
  /\ hasProgress' = FALSE
  /\ wire' = bidiAppend(wire, requestId + 1, 0, "run_request", 0, Absent)
  /\ gw' = Len(wire) + 1
  /\ gpc' = "awaitInit"
  /\ todo' = <<>>
  /\ out' = <<>>
  /\ kvSeen' = <<>>
  /\ UNCHANGED <<blobStore, pendingAssistantBlobs, turnEnded, hasStreamedText>>
  /\ UNCHANGED <<bridgeVars, reads, starts, failures, otherVars>>

GenStart ==
  /\ gpc = "init"
  /\ StartCall

(* chatStream is called again on the same client after the earlier call *)
(* has returned.                                                        *)
GenRestart ==
  /\ gpc = "returned"
  /\ requestId < MaxSessions
  /\ StartCall

InitAppendOk ==
  /\ gpc = "awaitInit"
  /\ wire' = Settle(wire, gw, "ok")
  /\ currentAppendSeqno' = appendSeqno
  /\ gpc' = "awaitSse"
  /\ gw' = 0
  /\ UNCHANGED <<currentRequestId, blobStore, pendingAssistantBlobs, appendSeqno,
                 turnEnded, hasStreamedText, heartbeatSinceProgress, hasProgress,
                 todo, out, kvSeen>>
  /\ UNCHANGED <<bridgeVars, reads, starts, failures>>
  /\ UNCHANGED <<callVars, otherVars>>

(* bidiAppend throws: the outer catch clears currentRequestId and yields an error. *)
InitAppendFail ==
  /\ gpc = "awaitInit"
  /\ failures < MaxFailures
  /\ failures' = failures + 1
  /\ Continue(Locals(ErrorThenReturn), Settle(wire, gw, "failed"), appendSeqno,
              currentAppendSeqno, Null)
  /\ UNCHANGED <<inMap, tasks, reads, starts>>
  /\ UNCHANGED <<callVars, otherVars>>

(* The RunSSE response: "ok", "notok" (!ok or no body), "reject" (fetch     *)
(* throws) or "abort" (the 120 s timer aborts the fetch).                   *)
SseResponse(outcome) ==
  /\ gpc = "awaitSse"
  /\ CASE outcome = "ok" ->
            /\ gpc' = "awaitRead"
            /\ pendingAssistantBlobs' = <<>>
            /\ turnEnded' = FALSE
            /\ hasStreamedText' = FALSE
            /\ UNCHANGED <<currentRequestId, currentAppendSeqno, blobStore, appendSeqno,
                           heartbeatSinceProgress, hasProgress, todo, gw, wire, out,
                           kvSeen, pendingExecs, sessState>>
       [] outcome = "notok" ->
            Continue(Locals(ErrorThenReturn), wire, appendSeqno, currentAppendSeqno,
                     currentRequestId)
       [] outcome = "reject" ->
            Continue(Locals(ErrorThenReturn), wire, appendSeqno, currentAppendSeqno, Null)
       [] OTHER ->
            Continue(Locals(<<RetOp>>), wire, appendSeqno, currentAppendSeqno, Null)
  /\ UNCHANGED <<inMap, tasks, reads, starts, failures>>
  /\ aborted => outcome = "abort"
  /\ aborted' = (aborted \/ outcome = "abort")
  /\ UNCHANGED <<requestId, inbox, otherVars>>

(* reader.read() delivers the bytes of one frame. *)
ReadFrame(fields, limit) ==
  /\ gpc = "awaitRead"
  /\ reads < limit
  /\ reads' = reads + 1
  /\ Continue(Locals(BufferOps(<<DataFrame(fields)>>)), wire, appendSeqno,
              currentAppendSeqno, currentRequestId)
  /\ UNCHANGED <<inMap, tasks, starts, failures>>
  /\ ~aborted
  /\ inbox' = inbox \o <<DataFrame(fields)>>
  /\ UNCHANGED <<requestId, aborted, otherVars>>

ReadTrailer(status) ==
  /\ gpc = "awaitRead"
  /\ reads < MaxReads
  /\ reads' = reads + 1
  /\ Continue(Locals(BufferOps(<<Trailer(status)>>)), wire, appendSeqno,
              currentAppendSeqno, currentRequestId)
  /\ UNCHANGED <<inMap, tasks, starts, failures>>
  /\ ~aborted
  /\ inbox' = inbox \o <<Trailer(status)>>
  /\ UNCHANGED <<requestId, aborted, otherVars>>

(* reader.read() delivers the bytes of several frames at once. *)
ReadFrames(frames) ==
  /\ gpc = "awaitRead"
  /\ reads < MaxReads
  /\ reads' = reads + 1
  /\ Continue(Locals(BufferOps(frames)), wire, appendSeqno, currentAppendSeqno,
              currentRequestId)
  /\ UNCHANGED <<inMap, tasks, starts, failures>>
  /\ ~aborted
  /\ inbox' = inbox \o frames
  /\ UNCHANGED <<requestId, aborted, otherVars>>

(* reader.read() reports the end of the stream. *)
ReadDone ==
  /\ gpc = "awaitRead"
  /\ Continue(Locals(<<YieldOp(Chunk("done", ""), FALSE, FALSE), FinOp>>), wire,
              appendSeqno, currentAppendSeqno, currentRequestId)
  /\ UNCHANGED <<inMap, tasks, reads, starts, failures>>
  /\ ~aborted
  /\ UNCHANGED <<callVars, otherVars>>

(* reader.read() throws: "abort" when the 120 s timer fired (AbortError),   *)
(* "error" for a transport error.  The finally block and the outer catch    *)
(* clear currentRequestId.                                                  *)
(* A variant in which an aborted read ends the stream like its end. *)
ReadFailsWithDone(kind) ==
  /\ gpc = "awaitRead"
  /\ aborted => kind = "abort"
  /\ aborted' = (aborted \/ kind = "abort")
  /\ Continue(Locals(<<YieldOp(Chunk("done", ""), FALSE, FALSE), FinOp>>), wire,
              appendSeqno, currentAppendSeqno, currentRequestId)
  /\ UNCHANGED <<inMap, tasks, reads, starts, failures>>
  /\ UNCHANGED <<requestId, inbox, otherVars>>

ReadFails(kind) ==
  /\ gpc = "awaitRead"
  /\ aborted => kind = "abort"
  /\ aborted' = (aborted \/ kind = "abort")
  /\ Continue(Locals(IF kind = "abort" THEN <<RetOp>> ELSE ErrorThenReturn), wire,
              appendSeqno, currentAppendSeqno, Null)
  /\ UNCHANGED <<inMap, tasks, reads, starts, failures>>
  /\ UNCHANGED <<requestId, inbox, otherVars>>

(* The BidiAppend of handleKvMessage returns: appendSeqno + 1 is stored in  *)
(* the local counter and copied to this.currentAppendSeqno.                 *)
KvAppendOk ==
  /\ gpc = "awaitKv"
  /\ Continue(Locals(Tail(todo)), Settle(wire, gw, "ok"), appendSeqno + 1,
              appendSeqno + 1, currentRequestId)
  /\ UNCHANGED <<inMap, tasks, reads, starts, failures>>
  /\ UNCHANGED <<callVars, otherVars>>

(* The BidiAppend of handleKvMessage throws: the per-field catch yields an  *)
(* error chunk and the loop goes on with the next field.                    *)
KvAppendFail ==
  /\ gpc = "awaitKv"
  /\ failures < MaxFailures
  /\ failures' = failures + 1
  /\ Continue(Locals(<<YieldOp(Chunk("error", "field"), FALSE, FALSE)>> \o Tail(todo)),
              Settle(wire, gw, "failed"), appendSeqno, currentAppendSeqno,
              currentRequestId)
  /\ UNCHANGED <<inMap, tasks, reads, starts>>
  /\ UNCHANGED <<callVars, otherVars>>

(* The 120 s timer fires while the generator is not waiting for the RunSSE *)
(* response or for a read: controller.abort() makes the next such wait     *)
(* reject with an AbortError.  (The timer firing during such a wait is     *)
(* SseResponse("abort") and ReadFails("abort").)  After turnEnded is set,  *)
(* and after the end of the stream, the signal is not looked at again.     *)
Timeout ==
  /\ ~aborted
  /\ ~turnEnded
  /\ gpc \in {"awaitInit", "awaitKv"}
     \/ (gpc = "yield" /\ todo[Len(todo)].op \notin {"ret", "fin"})
  /\ aborted' = TRUE
  /\ UNCHANGED <<clientVars, genVars, wire, out, kvSeen, bridgeVars, reads, starts,
                 failures, requestId, inbox, otherVars>>

(* The consumer calls next() on the suspended generator. *)
Resume ==
  /\ gpc = "yield"
  /\ LET o == Head(todo)
         L0 == Locals(Tail(todo))
         L1 == IF o.text THEN [L0 EXCEPT !.hasText = TRUE] ELSE L0
         L2 == IF o.progress THEN [L1 EXCEPT !.hsp = 0, !.hasProgress = TRUE] ELSE L1
     IN Continue(L2, wire, appendSeqno, currentAppendSeqno, currentRequestId)
  /\ UNCHANGED <<inMap, tasks, reads, starts, failures>>
  /\ UNCHANGED <<callVars, otherVars>>

----------------------------------------------------------------------------
(* The reader loop on bytes.  A frame on the wire is one flags byte, the   *)
(* payload length in four bytes, big-endian, and the payload.              *)

\* interaction_update (field 1, LEN) holding turn_ended (field 14, LEN, empty)
TurnEndedPayload == <<10, 2, 114, 0>>

ByteFrame(flags, payload) == [flags |-> flags, payload |-> payload]

LongPayload == [i \in 1..256 |-> 0]

ByteFrames ==
  { ByteFrame(0, <<>>), ByteFrame(0, <<10, 0>>), ByteFrame(0, TurnEndedPayload),
    ByteFrame(128, <<103, 114>>), ByteFrame(0, LongPayload) }

EncodeFrame(f) ==
  LET n == Len(f.payload) IN
  <<f.flags, n \div 16777216, (n \div 65536) % 256, (n \div 256) % 256, n % 256>>
    \o f.payload

RECURSIVE EncodeFrames(_)
EncodeFrames(fs) ==
  IF fs = <<>> THEN <<>> ELSE EncodeFrame(Head(fs)) \o EncodeFrames(Tail(fs))

ByteStreams ==
  { EncodeFrames(fs) : fs \in UNION { [1..n -> ByteFrames] : n \in 1..MaxFrames } }

(* (b1 << 24) | (b2 << 16) | (b3 << 8) | b4 on 32-bit signed integers. *)
FrameLength(b1, b2, b3, b4) ==
  (IF b1 >= 128 THEN b1 - 256 ELSE b1) * 16777216 + b2 * 65536 + b3 * 256 + b4

IsTrailerFlags(flags) == (flags \div 128) % 2 = 1

(* What the per-field loop makes of a data frame is kept only as far as it *)
(* decides the end of the turn.                                            *)
PayloadEndsTurn(payload) == payload = TurnEndedPayload

(* The frame loop from offset: the frames it takes from buf, the offset it *)
(* stops at, and whether it stopped because the turn ended.                *)
RECURSIVE ParseFrom(_, _, _)
ParseFrom(buf, offset, acc) ==
  IF offset + 5 > Len(buf)
  THEN [frames |-> acc, offset |-> offset, ended |-> FALSE]
  ELSE LET length == FrameLength(buf[offset + 2], buf[offset + 3], buf[offset + 4],
                                 buf[offset + 5])
       IN IF offset + 5 + length > Len(buf)
          THEN [frames |-> acc, offset |-> offset, ended |-> FALSE]
          ELSE LET f == ByteFrame(buf[offset + 1],
                                  SubSeq(buf, offset + 6, offset + 5 + length))
                   next == offset + 5 + length
               IN IF ~IsTrailerFlags(f.flags) /\ PayloadEndsTurn(f.payload)
                  THEN [frames |-> Append(acc, f), offset |-> next, ended |-> TRUE]
                  ELSE ParseFrom(buf, next, Append(acc, f))

(* A variant that throws the unparsed bytes away. *)
LeftoverNone(buf, offset) == <<>>

(* buffer = buffer.slice(offset) *)
Leftover(buf, offset) == SubSeq(buf, offset + 1, Len(buf))

InitBytes == StartState /\ input \in ByteStreams /\ arg = NoArg

(* reader.read() delivers the next n bytes of the body: they are appended  *)
(* to the buffer, the complete frames are taken from it, and the rest is   *)
(* kept for the next read.                                                 *)
ReadBytes(n) ==
  /\ gpc = "awaitRead"
  /\ ~turnEnded
  /\ pos + n <= Len(input)
  /\ LET r == ParseFrom(buffer \o SubSeq(input, pos + 1, pos + n), 0, <<>>) IN
       /\ parsedFrames' = parsedFrames \o r.frames
       /\ buffer' = Leftover(buffer \o SubSeq(input, pos + 1, pos + n), r.offset)
       /\ turnEnded' = r.ended
  /\ pos' = pos + n
  /\ UNCHANGED <<clientVars, gpc, appendSeqno, hasStreamedText, heartbeatSinceProgress,
                 hasProgress, todo, gw, wire, out, kvSeen, bridgeVars, reads, starts,
                 failures, callVars, peerVars, input, extVars>>

----------------------------------------------------------------------------
(* A second chatStream call on the same client object, running while the   *)
(* first is active.  Of that call only what it does to the client's fields *)
(* and the appends it issues are kept: peerSeqno is its local appendSeqno. *)

\* the request id randomUUID() gives the second call
PeerRequestId == 100

PeerInflight ==
  CHOOSE i \in 1..Len(wire) : wire[i].rid = PeerRequestId /\ wire[i].st = "inflight"

peerFrame == <<blobStore, pendingAssistantBlobs, genVars, out, kvSeen, bridgeVars,
               reads, starts, failures, callVars, frameVars, extVars>>

(* requestId = randomUUID(); this.currentRequestId = requestId;            *)
(* this.currentAppendSeqno = 0n; first bidiAppend issued.                  *)
PeerStart ==
  /\ peerPc = "init"
  /\ gpc \notin {"init", "returned"}
  /\ currentRequestId' = PeerRequestId
  /\ currentAppendSeqno' = 0
  /\ wire' = bidiAppend(wire, PeerRequestId, 0, "run_request", 0, Absent)
  /\ peerSeqno' = 1
  /\ peerPc' = "awaitInit"
  /\ UNCHANGED peerFrame

(* The first bidiAppend returned: this.currentAppendSeqno = appendSeqno. *)
PeerInitOk ==
  /\ peerPc = "awaitInit"
  /\ wire' = Settle(wire, PeerInflight, "ok")
  /\ currentAppendSeqno' = peerSeqno
  /\ peerPc' = "streaming"
  /\ UNCHANGED <<currentRequestId, peerSeqno, peerFrame>>

(* The second call answers a get_blob_args message of its stream. *)
PeerKv ==
  /\ peerPc = "streaming"
  /\ peerSeqno <= MaxReads
  /\ wire' = bidiAppend(wire, PeerRequestId, peerSeqno, "get_blob_result", 0, Absent)
  /\ peerPc' = "awaitKv"
  /\ UNCHANGED <<currentRequestId, currentAppendSeqno, peerSeqno, peerFrame>>

(* appendSeqno = await this.handleKvMessage(...); this.currentAppendSeqno = appendSeqno. *)
PeerKvOk ==
  /\ peerPc = "awaitKv"
  /\ wire' = Settle(wire, PeerInflight, "ok")
  /\ peerSeqno' = peerSeqno + 1
  /\ currentAppendSeqno' = peerSeqno + 1
  /\ peerPc' = "streaming"
  /\ UNCHANGED <<currentRequestId, peerFrame>>

(* The second call's stream ends and its consumer finishes it: the finally *)
(* block sets this.currentRequestId = null.                                *)
PeerEnd ==
  /\ peerPc = "streaming"
  /\ currentRequestId' = Null
  /\ peerPc' = "returned"
  /\ UNCHANGED <<currentAppendSeqno, wire, peerSeqno, peerFrame>>

----------------------------------------------------------------------------
(* sendToolResultsToCursor and the sendXResult methods it calls *)

ExecTypeOf(e) == IF e = 1 THEN "shell" ELSE "mcp"
SendableTypes == {"mcp", "shell", "read", "ls", "grep", "write"}

MsgLists == UNION { [1..n -> ToolCallIds] : n \in 1..MaxMsgs }

(* A variant of the lookup that lets every tool message through. *)
SkipUnknownNone(msgs, pend) == msgs

(* The loop skips the tool messages whose tool_call_id is not pending. *)
RECURSIVE SkipUnknown(_, _)
SkipUnknown(msgs, pend) ==
  IF msgs = <<>> THEN <<>>
  ELSE IF Head(msgs) \in pend THEN msgs
  ELSE SkipUnknown(Tail(msgs), pend)

(* The loop of sendToolResultsToCursor from the tool messages msgs up to    *)
(* its next await: the first BidiAppend of a sendXResult call, or the end.  *)
RunLoop(t, msgs, processedAny, pend, w, cur) ==
  LET rest == SkipUnknown(msgs, pend)
      \* the number of tool messages of this call the lookup has dropped so far
      d == (IF processedAny THEN tasks[t].dropped ELSE 0) + Len(msgs) - Len(rest)
  IN
  /\ pendingExecs' = pend
  /\ currentAppendSeqno' = cur
  /\ IF rest = <<>> THEN
         /\ tasks' = [tasks EXCEPT ![t] = IdleTask]
         /\ sessState' = IF processedAny THEN "running" ELSE sessState
         /\ wire' = w
     ELSE IF ExecTypeOf(Head(rest)) \notin SendableTypes \/ currentRequestId = Null THEN
         \* return false: unknown exec type, or sendXResult throws "No active chat stream"
         /\ tasks' = [tasks EXCEPT ![t] = IdleTask]
         /\ sessState' = sessState
         /\ wire' = w
     ELSE
         /\ wire' = bidiAppend(w, currentRequestId, cur, "result", Head(rest), Absent)
         /\ tasks' = [tasks EXCEPT ![t] = [pc |-> "awaitResult", msgs |-> rest,
                                           processedAny |-> processedAny, w |-> Len(w) + 1,
                                           direct |-> FALSE, dropped |-> d]]
         /\ sessState' = sessState

TaskStart(t, msgs) ==
  /\ tasks[t].pc = "idle"
  /\ \A u \in Tasks : u < t => tasks[u].pc # "idle"
  /\ inMap
  /\ starts < MaxTaskStarts
  /\ starts' = starts + 1
  /\ RunLoop(t, msgs, FALSE, pendingExecs, wire, currentAppendSeqno)
  /\ UNCHANGED <<currentRequestId, blobStore, pendingAssistantBlobs, genVars, out,
                 kvSeen, inMap, reads, failures>>
  /\ UNCHANGED <<callVars, otherVars>>

(* A sendXResult method called on the client for exec e by any caller: it   *)
(* throws when currentRequestId is null, and issues the result append with *)
(* this.currentAppendSeqno otherwise.                                      *)
sendToolResult(t, e) ==
  /\ tasks[t].pc = "idle"
  /\ starts < MaxTaskStarts
  /\ starts' = starts + 1
  /\ IF currentRequestId = Null
     THEN UNCHANGED <<wire, tasks>>
     ELSE /\ wire' = bidiAppend(wire, currentRequestId, currentAppendSeqno, "result", e, Absent)
          /\ tasks' = [tasks EXCEPT ![t] = [pc |-> "awaitResult", msgs |-> <<e>>,
                                            processedAny |-> FALSE, w |-> Len(wire) + 1,
                                            direct |-> TRUE, dropped |-> 0]]
  /\ UNCHANGED <<clientVars, genVars, out, kvSeen, pendingExecs, inMap, sessState,
                 reads, failures, callVars, otherVars>>

(* The result append returned: currentAppendSeqno++, then the stream_close  *)
(* append is issued with the request id and the counter as they are now.    *)
ResultOk(t) ==
  /\ tasks[t].pc = "awaitResult"
  /\ currentAppendSeqno' = currentAppendSeqno + 1
  /\ wire' = bidiAppend(Settle(wire, tasks[t].w, "ok"), currentRequestId,
                        currentAppendSeqno + 1, "stream_close", Head(tasks[t].msgs), Absent)
  /\ tasks' = [tasks EXCEPT ![t].pc = "awaitClose", ![t].w = Len(wire) + 1]
  /\ UNCHANGED <<currentRequestId, blobStore, pendingAssistantBlobs, genVars, out,
                 kvSeen, pendingExecs, inMap, sessState, reads, starts, failures>>
  /\ UNCHANGED <<callVars, otherVars>>

(* A BidiAppend of sendXResult throws: sendToolResultsToCursor returns false. *)
SendFail(t) ==
  /\ tasks[t].pc \in {"awaitResult", "awaitClose"}
  /\ failures < MaxFailures
  /\ failures' = failures + 1
  /\ wire' = Settle(wire, tasks[t].w, "failed")
  /\ tasks' = [tasks EXCEPT ![t] = IdleTask]
  /\ UNCHANGED <<clientVars, genVars, out, kvSeen, pendingExecs, inMap, sessState,
                 reads, starts>>
  /\ UNCHANGED <<callVars, otherVars>>

(* The stream_close append returned: currentAppendSeqno++, sendXResult      *)
(* returns, the entry is deleted and the loop goes on.                      *)
CloseOk(t) ==
  /\ tasks[t].pc = "awaitClose"
  /\ IF tasks[t].direct
     THEN /\ wire' = Settle(wire, tasks[t].w, "ok")
          /\ currentAppendSeqno' = currentAppendSeqno + 1
          /\ tasks' = [tasks EXCEPT ![t] = IdleTask]
          /\ UNCHANGED <<pendingExecs, sessState>>
     ELSE RunLoop(t, Tail(tasks[t].msgs), TRUE,
                  IF inMap THEN pendingExecs \ {Head(tasks[t].msgs)} ELSE pendingExecs,
                  Settle(wire, tasks[t].w, "ok"), currentAppendSeqno + 1)
  /\ UNCHANGED <<currentRequestId, blobStore, pendingAssistantBlobs, genVars, out,
                 kvSeen, inMap, reads, starts, failures>>
  /\ UNCHANGED <<callVars, otherVars>>

(* cleanupExpiredSessions on the expired session: iterator.return() runs    *)
(* the finally block when the generator is suspended inside the reader      *)
(* loop, and the session leaves the map with its pendingExecs.              *)
InReaderTry == gpc = "yield" /\ todo[Len(todo)].op # "ret"

cleanupExpiredSessions ==
  /\ inMap
  /\ gpc \in {"init", "yield", "returned"}
  /\ inMap' = FALSE
  /\ pendingExecs' = {}
  /\ gpc' = "returned"
  /\ todo' = <<>>
  /\ currentRequestId' = IF InReaderTry THEN Null ELSE currentRequestId
  /\ UNCHANGED <<currentAppendSeqno, blobStore, pendingAssistantBlobs, appendSeqno,
                 turnEnded, hasStreamedText, heartbeatSinceProgress, hasProgress, gw,
                 wire, out, kvSeen, sessState, tasks, reads, starts, failures>>
  /\ UNCHANGED <<callVars, otherVars>>

----------------------------------------------------------------------------

Next ==
  \/ GenStart
  \/ InitAppendOk
  \/ InitAppendFail
  \/ \E outcome \in {"ok", "notok", "reject", "abort"} : SseResponse(outcome)
  \/ \E fields \in ToolFrames : ReadFrame(fields, MaxToolReads)
  \/ ReadDone
  \/ \E kind \in {"abort", "error"} : ReadFails(kind)
  \/ KvAppendOk
  \/ KvAppendFail
  \/ Resume
  \/ \E t \in Tasks, msgs \in MsgLists : TaskStart(t, msgs)
  \/ \E t \in Tasks : ResultOk(t)
  \/ \E t \in Tasks : SendFail(t)
  \/ \E t \in Tasks : CloseOk(t)
  \/ cleanupExpiredSessions

Spec == Init /\ [][Next]_vars

(* One sendToolResultsToCursor call at a time. *)
NextSeq ==
  \/ GenStart
  \/ InitAppendOk
  \/ InitAppendFail
  \/ \E outcome \in {"ok", "notok", "reject", "abort"} : SseResponse(outcome)
  \/ \E fields \in ToolFrames : ReadFrame(fields, MaxToolReads)
  \/ ReadDone
  \/ \E kind \in {"abort", "error"} : ReadFails(kind)
  \/ KvAppendOk
  \/ KvAppendFail
  \/ Resume
  \/ \E msgs \in MsgLists : TaskStart(1, msgs)
  \/ ResultOk(1)
  \/ SendFail(1)
  \/ CloseOk(1)
  \/ cleanupExpiredSessions

SpecSeq == Init /\ [][NextSeq]_vars

(* The event stream alone: the generator and the consumer of its chunks. *)
NextStream ==
  \/ GenStart
  \/ InitAppendOk
  \/ InitAppendFail
  \/ \E outcome \in {"ok", "notok", "reject", "abort"} : SseResponse(outcome)
  \/ \E fields \in StreamFrames : ReadFrame(fields, MaxReads)
  \/ \E status \in TrailerStatuses : ReadTrailer(status)
  \/ \E frames \in StreamBuffers : ReadFrames(frames)
  \/ ReadDone
  \/ \E kind \in {"abort", "error"} : ReadFails(kind)
  \/ KvAppendOk
  \/ KvAppendFail
  \/ Resume

SpecStream == Init /\ [][NextStream]_vars

(* The sendXResult methods called on the client whatever the session holds. *)
NextSend ==
  \/ GenStart
  \/ InitAppendOk
  \/ InitAppendFail
  \/ \E outcome \in {"ok", "notok", "reject", "abort"} : SseResponse(outcome)
  \/ \E fields \in ToolFrames : ReadFrame(fields, MaxToolReads)
  \/ ReadDone
  \/ \E kind \in {"abort", "error"} : ReadFails(kind)
  \/ KvAppendOk
  \/ KvAppendFail
  \/ Resume
  \/ \E e \in Execs : sendToolResult(1, e)
  \/ ResultOk(1)
  \/ SendFail(1)
  \/ CloseOk(1)

SpecSend == Init /\ [][NextSend]_vars

(* Frames with malformed payloads. *)
ParseFrames ==
  { <<DataFrame(<<IU(<<TextDelta("t1")>>)>>)>>, <<DataFrame(<<IU(<<TurnEnded>>)>>)>>,
    <<DataFrame(<<Checkpoint>>)>>,
    <<BadFrame>>, <<BadFrame, DataFrame(<<IU(<<TextDelta("t2")>>)>>)>>,
    <<DataFrame(<<BadIU>>)>>, <<DataFrame(<<BadIU, IU(<<TextDelta("t2")>>)>>)>> }

NextParse ==
  \/ GenStart
  \/ InitAppendOk
  \/ SseResponse("ok")
  \/ \E frames \in ParseFrames : ReadFrames(frames)
  \/ ReadDone
  \/ Resume

SpecParse == Init /\ [][NextParse]_vars

(* The tool results of one sendToolResultsToCursor call at a time, sent *)
(* while the session streams exec requests.                            *)
ExecFrames == { <<ExecMsg(1)>>, <<ExecMsg(2)>>, <<IU(<<TurnEnded>>)>> }

NextDrop ==
  \/ GenStart
  \/ InitAppendOk
  \/ SseResponse("ok")
  \/ \E fields \in ExecFrames : ReadFrame(fields, MaxToolReads)
  \/ Resume
  \/ \E msgs \in MsgLists : TaskStart(1, msgs)
  \/ ResultOk(1)
  \/ CloseOk(1)

SpecDrop == Init /\ [][NextDrop]_vars

(* Successive chatStream calls on one client, with blob traffic. *)
BlobFrames ==
  { <<KvMsg(Kv(7, "set", "b1", "A1"))>>, <<KvMsg(Kv(7, "get", "b1", Absent))>>,
    <<KvMsg(Kv(0, "get", "b2", Absent))>>, <<IU(<<TurnEnded>>)>> }

NextBlob ==
  \/ GenStart
  \/ GenRestart
  \/ InitAppendOk
  \/ SseResponse("ok")
  \/ \E fields \in BlobFrames : ReadFrame(fields, MaxReads)
  \/ ReadDone
  \/ KvAppendOk
  \/ Resume

SpecBlob == Init /\ [][NextBlob]_vars

(* Two chatStream calls active at once on one client, the first with its *)
(* tool results being sent.                                              *)
NextPeer ==
  \/ GenStart
  \/ InitAppendOk
  \/ SseResponse("ok")
  \/ \E fields \in ExecFrames : ReadFrame(fields, MaxToolReads)
  \/ Resume
  \/ \E msgs \in MsgLists : TaskStart(1, msgs)
  \/ ResultOk(1)
  \/ CloseOk(1)
  \/ PeerStart
  \/ PeerInitOk
  \/ PeerKv
  \/ PeerKvOk
  \/ PeerEnd

SpecPeer == Init /\ [][NextPeer]_vars

(* The reader loop on the bytes of a response body, in chunks of any size. *)
NextBytes ==
  \/ GenStart
  \/ InitAppendOk
  \/ SseResponse("ok")
  \/ \E n \in 1..(Len(input) - pos) : ReadBytes(n)

SpecBytes == InitBytes /\ [][NextBytes]_vars

(* Interaction updates that carry one update or two. *)
OrderFrames ==
  { <<IU(u)>> : u \in { <<TextDelta("t1")>>, <<Started>>, <<Completed>>,
                        <<TextDelta("t1"), Started>>, <<Started, TextDelta("t1")>>,
                        <<Started, Completed>>, <<TurnEnded>> } }

NextOrder ==
  \/ GenStart
  \/ InitAppendOk
  \/ SseResponse("ok")
  \/ \E fields \in OrderFrames : ReadFrame(fields, MaxReads)
  \/ ReadDone
  \/ Resume

SpecOrder == Init /\ [][NextOrder]_vars

(* The event stream with the 120 s timer. *)
NextDeadline ==
  \/ GenStart
  \/ InitAppendOk
  \/ InitAppendFail
  \/ \E outcome \in {"ok", "notok", "reject", "abort"} : SseResponse(outcome)
  \/ \E fields \in StreamFrames : ReadFrame(fields, MaxReads)
  \/ \E status \in TrailerStatuses : ReadTrailer(status)
  \/ \E frames \in StreamBuffers : ReadFrames(frames)
  \/ ReadDone
  \/ \E kind \in {"abort", "error"} : ReadFails(kind)
  \/ KvAppendOk
  \/ KvAppendFail
  \/ Resume
  \/ Timeout

SpecDeadline == Init /\ [][NextDeadline]_vars

(* The heartbeat stream. *)
NextBeat ==
  \/ GenStart
  \/ InitAppendOk
  \/ SseResponse("ok")
  \/ \E fields \in BeatFrames :
       /\ fields = <<IU(<<TextDelta("t1")>>)>> => reads \in TextReadsAt
       /\ ReadFrame(fields, MaxBeatReads)
  \/ Resume

SpecBeat == Init /\ [][NextBeat]_vars

(* The blob requests alone. *)
NextKv ==
  \/ GenStart
  \/ InitAppendOk
  \/ SseResponse("ok")
  \/ \E fields \in KvFrames : ReadFrame(fields, MaxReads)
  \/ ReadDone
  \/ KvAppendOk
  \/ KvAppendFail
  \/ Resume

SpecKv == Init /\ [][NextKv]_vars

----------------------------------------------------------------------------
(* The loader's fetch of the plugin and the token refresh *)

(* The response to POST /auth/refresh: ok is response.ok, access and       *)
(* refresh say whether the body has the accessToken and refreshToken keys, *)
(* throws that fetch() or response.json() threw.                           *)
RefreshResponse200(access, refresh) ==
  [ok |-> TRUE, access |-> access, refresh |-> refresh, throws |-> FALSE]

RefreshResponses ==
  { RefreshResponse200(TRUE, TRUE), RefreshResponse200(FALSE, TRUE),
    RefreshResponse200(TRUE, FALSE),
    [ok |-> FALSE, access |-> FALSE, refresh |-> FALSE, throws |-> FALSE],
    [ok |-> FALSE, access |-> FALSE, refresh |-> FALSE, throws |-> TRUE] }

NoResponse == [ok |-> FALSE, access |-> FALSE, refresh |-> FALSE, throws |-> FALSE]

(* A variant that takes every ok response as a result. *)
refreshAccessTokenAnyBody(resp, n) ==
  IF ~resp.throws /\ resp.ok THEN n ELSE Null

(* refreshAccessToken: the tokens of the body (numbered n), or null. *)
refreshAccessToken(resp, n) ==
  IF ~resp.throws /\ resp.ok /\ resp.access /\ resp.refresh THEN n ELSE Null

(* fetch(request, transformedInit) is called with the access token of rec. *)
IssueCall(r, rec) ==
  /\ apiLog' = Append(apiLog, [req |-> r, access |-> rec.access, status |-> 0])
  /\ fetches' = [fetches EXCEPT ![r].pc = "calling", ![r].rec = rec,
                                ![r].call = Len(apiLog) + 1, ![r].calls = @ + 1]

(* fetch(input, init) is called for a Cursor request: await getAuth(). *)
FetchStart(r) ==
  /\ fetches[r].pc = "idle"
  /\ fetchStarts < MaxFetches
  /\ fetchStarts' = fetchStarts + 1
  /\ fetches' = [fetches EXCEPT ![r] = [IdleFetch EXCEPT !.pc = "getAuth"]]
  /\ UNCHANGED <<stored, refreshLog, apiLog, chatVars, pollVars, calcVars>>

(* getAuth() returns the stored credential; when it has expired the refresh *)
(* request is sent, otherwise the Cursor call is made.                      *)
GetAuthReturns(r) ==
  /\ fetches[r].pc = "getAuth"
  /\ IF stored.expired
     THEN /\ refreshLog' = Append(refreshLog, [req |-> r, rec |-> stored, answered |-> FALSE,
                                              resp |-> NoResponse])
          /\ fetches' = [fetches EXCEPT ![r].pc = "refreshing", ![r].rec = stored,
                                        ![r].rcall = Len(refreshLog) + 1]
          /\ UNCHANGED apiLog
     ELSE /\ IssueCall(r, stored)
          /\ UNCHANGED refreshLog
  /\ UNCHANGED <<stored, fetchStarts, chatVars, pollVars, calcVars>>

(* The refresh request is answered.  With a result, updatedAuth is built    *)
(* and client.auth.set is called; without, the call goes out with the       *)
(* token at hand.                                                           *)
RefreshResponse(r, resp) ==
  /\ fetches[r].pc = "refreshing"
  /\ refreshLog' = [refreshLog EXCEPT ![fetches[r].rcall].resp = resp,
                                      ![fetches[r].rcall].answered = TRUE]
  /\ LET n == refreshAccessToken(resp, fetches[r].rcall) IN
       IF n = Null
       THEN IssueCall(r, fetches[r].rec)
       ELSE /\ fetches' = [fetches EXCEPT ![r].pc = "persisting",
                                          ![r].rec = Credential(n, FALSE)]
            /\ UNCHANGED apiLog
  /\ UNCHANGED <<stored, fetchStarts, chatVars, pollVars, calcVars>>

(* client.auth.set returns, or throws (which is caught): the Cursor call    *)
(* goes out with the new token.                                             *)
PersistReturns(r, ok) ==
  /\ fetches[r].pc = "persisting"
  /\ stored' = IF ok THEN fetches[r].rec ELSE stored
  /\ IssueCall(r, fetches[r].rec)
  /\ UNCHANGED <<refreshLog, fetchStarts, chatVars, pollVars, calcVars>>

(* The Cursor call is answered: fetch returns the response to its caller. *)
CallResponse(r, status) ==
  /\ fetches[r].pc = "calling"
  /\ apiLog' = [apiLog EXCEPT ![fetches[r].call].status = status]
  /\ fetches' = [fetches EXCEPT ![r].pc = "idle", ![r].status = status]
  /\ UNCHANGED <<stored, refreshLog, fetchStarts, chatVars, pollVars, calcVars>>

(* Time passes: the stored credential comes within 60 s of its expiry. *)
Expire ==
  /\ ~stored.expired
  /\ stored' = [stored EXCEPT !.expired = TRUE]
  /\ UNCHANGED <<fetches, refreshLog, apiLog, fetchStarts, chatVars, pollVars, calcVars>>

NextFetch ==
  \/ \E r \in Requests : FetchStart(r)
  \/ \E r \in Requests : GetAuthReturns(r)
  \/ \E r \in Requests, resp \in RefreshResponses : RefreshResponse(r, resp)
  \/ \E r \in Requests, ok \in BOOLEAN : PersistReturns(r, ok)
  \/ \E r \in Requests, status \in {200, 401} : CallResponse(r, status)
  \/ Expire

SpecFetch == Init /\ [][NextFetch]_vars

----------------------------------------------------------------------------
(* LoginManager.waitForResult *)

DefaultMaxAttempts == 150
maxConsecutiveErrors == 3

(* options: maxAttempts given or not. *)
PollOptions ==
  { [given |-> FALSE, maxAttempts |-> 0] }
    \cup { [given |-> TRUE, maxAttempts |-> n] : n \in {0, 2, 4} }

(* The answers to a poll: status 404; another status that is not ok; an ok *)
(* response whose body has both tokens, lacks one, or cannot be parsed;    *)
(* fetch throws.                                                           *)
PollAnswers == {"404", "error", "tokens", "notokens", "badjson", "throw"}

FailedPolls == {"error", "badjson", "throw"}

(* A variant of the loop increment that stays at the same attempt. *)
NextAttemptSame(a) == a

(* attempt++ *)
NextAttempt(a) == a + 1

(* The head of the for loop with attempt at a: the next poll is sent, or *)
(* the loop is left and null returned.                                   *)
LoopHead(a, max) ==
  /\ attempt' = a
  /\ IF a < max
     THEN ppc' = "fetching" /\ polls' = polls + 1 /\ result' = result
     ELSE ppc' = "returned" /\ polls' = polls /\ result' = "null"

waitForResult(options) ==
  /\ ppc = "idle"
  /\ maxAttempts' = IF options.given THEN options.maxAttempts ELSE DefaultMaxAttempts
  /\ consecutiveErrors' = 0
  /\ LoopHead(0, maxAttempts')
  /\ UNCHANGED <<streak, lastAnswer, pluginVars, chatVars, calcVars>>

(* One more error of the poll in hand: null after the third in a row. *)
CountError(n) ==
  /\ consecutiveErrors' = n
  /\ IF n >= maxConsecutiveErrors
     THEN ppc' = "returned" /\ result' = "null"
     ELSE ppc' = "sleeping" /\ result' = result

(* The poll is answered. *)
PollResponse(answer) ==
  /\ ppc = "fetching"
  /\ lastAnswer' = answer
  /\ streak' = IF answer \in FailedPolls THEN streak + 1 ELSE 0
  /\ CASE answer = "404" ->
            consecutiveErrors' = 0 /\ ppc' = "sleeping" /\ result' = result
       [] answer \in {"error", "throw"} ->
            CountError(consecutiveErrors + 1)
       [] answer = "tokens" ->
            consecutiveErrors' = 0 /\ ppc' = "returned" /\ result' = "tokens"
       [] answer = "notokens" ->
            consecutiveErrors' = 0 /\ ppc' = "returned" /\ result' = "null"
       [] OTHER ->
            \* consecutiveErrors = 0 before response.json() throws into the catch
            CountError(0 + 1)
  /\ UNCHANGED <<maxAttempts, attempt, polls, pluginVars, chatVars, calcVars>>

(* sleep(delay) is over: continue with the next attempt. *)
SleepDone ==
  /\ ppc = "sleeping"
  /\ LoopHead(NextAttempt(attempt), maxAttempts)
  /\ UNCHANGED <<maxAttempts, consecutiveErrors, streak, lastAnswer, pluginVars, chatVars,
                 calcVars>>

NextPoll ==
  \/ \E options \in PollOptions : waitForResult(options)
  \/ \E answer \in PollAnswers : PollResponse(answer)
  \/ SleepDone

SpecPoll == Init /\ [][NextPoll]_vars

(* Every poll is answered and every sleep ends. *)
SpecPollFair == SpecPoll /\ WF_vars(NextPoll)

----------------------------------------------------------------------------
(* Session ids and tool call ids.  A string is the sequence of its characters. *)

Digits == {"0", "1", "2", "3", "4", "5", "6", "7", "8", "9"}
Letters ==
  {"a", "b", "c", "d", "e", "f", "l", "s", "x", "z", "A", "F", "Z"}
AlphaNumeric == Digits \cup Letters

SessPrefix == <<"s", "e", "s", "s", "_">>
CallMark == <<"_", "_", "c", "a", "l", "l", "_">>

(* A random UUID: 8-4-4-4-12 hexadecimal digits, h in the first group and *)
(* g in the others.                                                       *)
Uuid(h, g) ==
  [i \in 1..36 |-> IF i \in {9, 14, 19, 24} THEN "-" ELSE IF i < 9 THEN h ELSE g]

Uuids == { Uuid(h, g) : h, g \in {"0", "9", "a", "f"} }

(* crypto.randomUUID().replace(/-/g, "").slice(0, 12) *)
createSessionId(uuid) ==
  LET hex == SelectSeq(uuid, LAMBDA c : c # "-") IN SubSeq(hex, 1, 12)

(* `sess_${sessionId}__call_${callBase}` *)
makeToolCallId(sessionId, callBase) == SessPrefix \o sessionId \o CallMark \o callBase

HasAt(str, i, pat) ==
  i + Len(pat) - 1 <= Len(str) /\ SubSeq(str, i, i + Len(pat) - 1) = pat

(* A variant that ends the session id at the first digit. *)
parseSessionIdFromToolCallIdLetters(toolCallId) ==
  IF toolCallId = <<>> \/ ~HasAt(toolCallId, 1, SessPrefix) THEN <<>>
  ELSE LET start == Len(SessPrefix) + 1
           ends == { e \in start..Len(toolCallId) :
                       \A i \in start..e : toolCallId[i] \in Letters }
       IN IF ends = {} THEN <<>>
          ELSE SubSeq(toolCallId, start, CHOOSE e \in ends : \A d \in ends : d <= e)

(* toolCallId.match(/^sess_([a-zA-Z0-9]+)__call_/): the longest run of     *)
(* letters and digits after "sess_" that "__call_" follows; <<>> is null.  *)
parseSessionIdFromToolCallId(toolCallId) ==
  IF toolCallId = <<>> \/ ~HasAt(toolCallId, 1, SessPrefix) THEN <<>>
  ELSE LET start == Len(SessPrefix) + 1
           ends == { e \in start..Len(toolCallId) :
                       /\ \A i \in start..e : toolCallId[i] \in AlphaNumeric
                       /\ HasAt(toolCallId, e + 1, CallMark) }
       IN IF ends = {} THEN <<>>
          ELSE SubSeq(toolCallId, start, CHOOSE e \in ends : \A d \in ends : d <= e)

(* Call bases: what is left of a Cursor id, and strings that hold the *)
(* marks of a tool call id themselves.                                *)
BasePieces == { <<"x">>, <<"1">>, <<"_">>, CallMark, SessPrefix }

RECURSIVE Flatten(_)
Flatten(ss) == IF ss = <<>> THEN <<>> ELSE Head(ss) \o Flatten(Tail(ss))

CallBases ==
  { Flatten(ps) : ps \in UNION { [1..n -> BasePieces] : n \in 0..MaxPieces } }

InitIds ==
  /\ StartState
  /\ input = <<>>
  /\ arg \in [uuid : Uuids, callBase : CallBases]

CreateSession ==
  /\ cpc = "start"
  /\ "uuid" \in DOMAIN arg
  /\ val' = [sessionId |-> createSessionId(arg.uuid)]
  /\ cpc' = "session"
  /\ UNCHANGED <<arg, chatVars, pluginVars, pollVars>>

MakeToolCallId ==
  /\ cpc = "session"
  /\ val' = [sessionId |-> val.sessionId,
             toolCallId |-> makeToolCallId(val.sessionId, arg.callBase)]
  /\ cpc' = "made"
  /\ UNCHANGED <<arg, chatVars, pluginVars, pollVars>>

ParseToolCallId ==
  /\ cpc = "made"
  /\ val' = [sessionId |-> val.sessionId, toolCallId |-> val.toolCallId,
             parsed |-> parseSessionIdFromToolCallId(val.toolCallId)]
  /\ cpc' = "parsed"
  /\ UNCHANGED <<arg, chatVars, pluginVars, pollVars>>

NextIds == CreateSession \/ MakeToolCallId \/ ParseToolCallId

SpecIds == InitIds /\ [][NextIds]_vars

(***************************************************************************)
(* Varints and field keys: encodeVarint and encodeFieldKey of part_000,    *)
(* parseVarInt and decodeTag of scripts/debug-proto-encoding.ts.           *)
(*                                                                         *)
(* A BigInt in [-2^64, 2^64) is its 64 low two's complement bits, lowest   *)
(* first, with neg telling that every higher bit is a one.  A number that  *)
(* went through a bitwise operator is an int32: 32 bits, lowest first.     *)
(***************************************************************************)
MaxValue == 300

MaxField == 40

Bit(n, i) == (n \div 2^(i - 1)) % 2

RECURSIVE BitsToNat(_, _)
BitsToNat(b, n) == IF n = 0 THEN 0 ELSE BitsToNat(b, n - 1) + b[n] * 2^(n - 1)

BigIntOf(bits, neg) == [bits |-> bits, neg |-> neg]

FromNat(n) == BigIntOf([i \in 1..64 |-> IF i <= 31 THEN Bit(n, i) ELSE 0], FALSE)

PowerOfTwo(k) == BigIntOf([i \in 1..64 |-> IF i = k + 1 THEN 1 ELSE 0], FALSE)

Ones(k) == BigIntOf([i \in 1..64 |-> IF i <= k THEN 1 ELSE 0], FALSE)

VarintInputs ==
  {FromNat(n) : n \in 0..MaxValue} \cup {PowerOfTwo(k) : k \in 0..63}
    \cup {Ones(k) : k \in 1..64}

AndMask7(v) == BitsToNat(v.bits, 7)

ShiftRight7(v) ==
  BigIntOf([i \in 1..64 |-> IF i + 7 <= 64 THEN v.bits[i + 7]
                            ELSE IF v.neg THEN 1 ELSE 0], v.neg)

Positive(v) == ~v.neg /\ \E i \in 1..64 : v.bits[i] = 1

RECURSIVE encodeVarint(_)
encodeVarint(v) ==
  LET rest == ShiftRight7(v)
  IN IF Positive(rest) THEN <<AndMask7(v) + 128>> \o encodeVarint(rest)
     ELSE <<AndMask7(v)>>

Zero32 == [i \in 1..32 |-> 0]

ToInt32(n) == [i \in 1..32 |-> IF i <= 31 THEN Bit(n, i) ELSE 0]

ShiftLeft(b, s) ==
  LET c == s % 32 IN [i \in 1..32 |-> IF i - c >= 1 THEN b[i - c] ELSE 0]

ShiftRightSigned(b, s) ==
  LET c == s % 32 IN [i \in 1..32 |-> IF i + c <= 32 THEN b[i + c] ELSE b[32]]

BitOr(a, b) == [i \in 1..32 |-> IF a[i] = 1 \/ b[i] = 1 THEN 1 ELSE 0]

BitAnd(a, b) == [i \in 1..32 |-> IF a[i] = 1 /\ b[i] = 1 THEN 1 ELSE 0]

ToBigInt(b) ==
  BigIntOf([i \in 1..64 |-> IF i <= 32 THEN b[i] ELSE b[32]], b[32] = 1)

ToNumber(b) ==
  IF b[32] = 0 THEN BitsToNat(b, 31)
  ELSE (BitsToNat(b, 31) - 2^30) - 2^30

RECURSIVE parseVarIntFrom(_, _, _, _)
parseVarIntFrom(data, i, value, shift) ==
  IF i + 1 > Len(data) THEN [value |-> value, newOffset |-> i + 1]
  ELSE LET byte == data[i + 1]
           v == BitOr(value, ShiftLeft(ToInt32(byte % 128), shift))
       IN IF byte >= 128 THEN parseVarIntFrom(data, i + 1, v, shift + 7)
          ELSE [value |-> v, newOffset |-> i + 1]

parseVarInt(data, offset) == parseVarIntFrom(data, offset, Zero32, 0)

encodeFieldKey(fieldNumber, wireType) ==
  encodeVarint(ToBigInt(BitOr(ShiftLeft(ToInt32(fieldNumber), 3),
                              ToInt32(wireType))))

decodeTag(data, offset) ==
  LET p == parseVarInt(data, offset)
  IN [fieldNumber |-> ToNumber(ShiftRightSigned(p.value, 3)),
      wireType |-> ToNumber(BitAnd(p.value, ToInt32(7))),
      newOffset |-> p.newOffset]

InitVarint ==
  /\ StartState
  /\ input = <<>>
  /\ arg \in [v : VarintInputs]

EncodeVarint ==
  /\ cpc = "start"
  /\ "v" \in DOMAIN arg
  /\ val' = [bytes |-> encodeVarint(arg.v)]
  /\ cpc' = "encoded"
  /\ UNCHANGED <<arg, chatVars, pluginVars, pollVars>>

ParseVarInt ==
  /\ cpc = "encoded"
  /\ "v" \in DOMAIN arg
  /\ LET p == parseVarInt(val.bytes, 0)
     IN val' = [bytes |-> val.bytes, decoded |-> ToBigInt(p.value),
                newOffset |-> p.newOffset]
  /\ cpc' = "decoded"
  /\ UNCHANGED <<arg, chatVars, pluginVars, pollVars>>

NextVarint == EncodeVarint \/ ParseVarInt

SpecVarint == InitVarint /\ [][NextVarint]_vars

WireTypes == {0, 2}

FieldNumbers ==
  (1..MaxField) \cup {2^k : k \in 0..28} \cup {2^k - 1 : k \in 1..29}

InitTag ==
  /\ StartState
  /\ input = <<>>
  /\ arg \in [fieldNumber : FieldNumbers, wireType : WireTypes]

EncodeFieldKey ==
  /\ cpc = "start"
  /\ "fieldNumber" \in DOMAIN arg
  /\ val' = [bytes |-> encodeFieldKey(arg.fieldNumber, arg.wireType)]
  /\ cpc' = "encoded"
  /\ UNCHANGED <<arg, chatVars, pluginVars, pollVars>>

DecodeTag ==
  /\ cpc = "encoded"
  /\ "fieldNumber" \in DOMAIN arg
  /\ LET t == decodeTag(val.bytes, 0)
     IN val' = [bytes |-> val.bytes, fieldNumber |-> t.fieldNumber,
                wireType |-> t.wireType, newOffset |-> t.newOffset]
  /\ cpc' = "decoded"
  /\ UNCHANGED <<arg, chatVars, pluginVars, pollVars>>

NextTag == EncodeFieldKey \/ DecodeTag

SpecTag == InitTag /\ [][NextTag]_vars

(***************************************************************************)
(* Field encoders and the ExecClientControlMessage builder.  The           *)
(* repository holds two sets: the one of part_000 (34-66, 116-126) and the *)
(* one of scripts/debug-proto-encoding.ts (17-72), whose operators carry   *)
(* the suffix Script here.                                                 *)
(***************************************************************************)
MaxId == 2

MaxText == 2

Chars == {"a", "_", "e'"}

RECURSIVE TextEncode(_)
TextEncode(str) ==
  IF str = <<>> THEN <<>>
  ELSE (CASE Head(str) = "a" -> <<97>>
          [] Head(str) = "_" -> <<95>>
          [] Head(str) = "e'" -> <<195, 169>>) \o TextEncode(Tail(str))

Texts == UNION {[1..n -> Chars] : n \in 0..MaxText}

FieldNos == {1, 5, 16}

Int32ToBigInt(n) ==
  IF n >= 0 THEN FromNat(n)
  ELSE BigIntOf([i \in 1..64 |-> IF i <= 31 THEN Bit((n + 2^30) + 2^30, i)
                                 ELSE 1], TRUE)

AddTwoTo32(n) ==
  BigIntOf([i \in 1..64 |-> IF i <= 31 THEN Bit((n + 2^30) + 2^30, i)
                            ELSE IF i = 32 THEN 1 ELSE 0], FALSE)

encodeUint32Field(fieldNumber, value) ==
  IF value = 0 THEN <<>>
  ELSE encodeFieldKey(fieldNumber, 0) \o encodeVarint(Int32ToBigInt(value))

encodeInt32Field(fieldNumber, value) ==
  IF value = 0 THEN <<>>
  ELSE encodeFieldKey(fieldNumber, 0)
         \o encodeVarint(IF value >= 0 THEN Int32ToBigInt(value)
                         ELSE AddTwoTo32(value))

encodeStringField(fieldNumber, value) ==
  IF value = <<>> THEN <<>>
  ELSE LET bytes == TextEncode(value)
       IN encodeFieldKey(fieldNumber, 2) \o encodeVarint(FromNat(Len(bytes)))
            \o bytes

encodeMessageField(fieldNumber, message) ==
  encodeFieldKey(fieldNumber, 2) \o encodeVarint(FromNat(Len(message)))
    \o message

encodeExecClientStreamClose(id) == encodeUint32Field(1, id)

buildExecClientControlMessage(id) ==
  encodeMessageField(1, encodeExecClientStreamClose(id))

Above7f(v) == ~v.neg /\ \E i \in 8..64 : v.bits[i] = 1

RECURSIVE encodeVarintScript(_)
encodeVarintScript(v) ==
  IF Above7f(v) THEN <<AndMask7(v) + 128>> \o encodeVarintScript(ShiftRight7(v))
  ELSE <<AndMask7(v)>>

encodeTagAndWireType(fieldNumber, wireType) ==
  encodeVarintScript(ToBigInt(BitOr(ShiftLeft(ToInt32(fieldNumber), 3),
                                    ToInt32(wireType))))

encodeStringFieldScript(fieldNumber, value) ==
  LET encoded == TextEncode(value)
  IN encodeTagAndWireType(fieldNumber, 2)
       \o encodeVarintScript(FromNat(Len(encoded))) \o encoded

encodeUint32FieldScript(fieldNumber, value) ==
  encodeTagAndWireType(fieldNumber, 0) \o encodeVarintScript(Int32ToBigInt(value))

encodeMessageFieldScript(fieldNumber, message) ==
  encodeTagAndWireType(fieldNumber, 2)
    \o encodeVarintScript(FromNat(Len(message))) \o message

encodeExecClientStreamCloseScript(id) == encodeUint32FieldScript(1, id)

buildExecClientControlMessageScript(id) ==
  encodeMessageFieldScript(1, encodeExecClientStreamCloseScript(id))

InitFields ==
  /\ StartState
  /\ input = <<>>
  /\ arg \in [fieldNumber : FieldNos, id : 0..MaxId, int : (0 - MaxId)..MaxId,
              text : Texts]

EncodeFields ==
  /\ cpc = "start"
  /\ "text" \in DOMAIN arg
  /\ val' = [uint32 |-> encodeUint32Field(arg.fieldNumber, arg.id),
             int32 |-> encodeInt32Field(arg.fieldNumber, arg.int),
             string |-> encodeStringField(arg.fieldNumber, arg.text),
             message |-> encodeMessageField(arg.fieldNumber,
                                            encodeExecClientStreamClose(arg.id))]
  /\ cpc' = "fields"
  /\ UNCHANGED <<arg, chatVars, pluginVars, pollVars>>

BuildExecClientControlMessage ==
  /\ cpc = "fields"
  /\ val' = [control |-> buildExecClientControlMessage(arg.id)]
  /\ cpc' = "built"
  /\ UNCHANGED <<arg, chatVars, pluginVars, pollVars>>

EncodeFieldsScript ==
  /\ cpc = "built"
  /\ val' = [uint32 |-> encodeUint32FieldScript(arg.fieldNumber, arg.id),
             string |-> encodeStringFieldScript(arg.fieldNumber, arg.text),
             message |-> encodeMessageFieldScript(arg.fieldNumber,
                           encodeExecClientStreamCloseScript(arg.id))]
  /\ cpc' = "scriptFields"
  /\ UNCHANGED <<arg, chatVars, pluginVars, pollVars>>

BuildExecClientControlMessageScript ==
  /\ cpc = "scriptFields"
  /\ val' = [control |-> buildExecClientControlMessageScript(arg.id)]
  /\ cpc' = "scriptBuilt"
  /\ UNCHANGED <<arg, chatVars, pluginVars, pollVars>>

NextFields ==
  \/ EncodeFields
  \/ BuildExecClientControlMessage
  \/ EncodeFieldsScript
  \/ BuildExecClientControlMessageScript

SpecFields == InitFields /\ [][NextFields]_vars

(***************************************************************************)
(* Model limits: getModelLimits of scripts/debug-proto-encoding.ts         *)
(* (298-332).  ModelInfoMap is the table of the package llm-info; the      *)
(* function is checked for tables that hold any subset of the ids          *)
(* the mapping names, with limits that may lack either number.             *)
(***************************************************************************)
CURSOR_TO_LLM_INFO_MAP_HighAsGpt5 ==
  ("sonnet-4.5" :> "claude-sonnet-4-5-20250929")
    @@ ("sonnet-4.5-thinking" :> "claude-sonnet-4-5-20250929")
    @@ ("opus-4.5" :> "claude-opus-4-5-20251101")
    @@ ("opus-4.5-thinking" :> "claude-opus-4-5-20251101")
    @@ ("opus-4.1" :> "claude-opus-4-1-20250805")
    @@ ("gemini-3-pro" :> "gemini-3-pro-preview")
    @@ ("gemini-3-flash" :> "gemini-2.5-flash")
    @@ ("gpt-5.2" :> "gpt-5.2")
    @@ ("gpt-5.2-high" :> "gpt-5")
    @@ ("gpt-5.1" :> "gpt-5")
    @@ ("gpt-5.1-high" :> "gpt-5")
    @@ ("gpt-5.1-codex" :> "gpt-5")
    @@ ("gpt-5.1-codex-high" :> "gpt-5")
    @@ ("gpt-5.1-codex-max" :> "gpt-5")
    @@ ("gpt-5.1-codex-max-high" :> "gpt-5")
    @@ ("grok" :> "grok-4")

CURSOR_TO_LLM_INFO_MAP ==
  ("sonnet-4.5" :> "claude-sonnet-4-5-20250929")
    @@ ("sonnet-4.5-thinking" :> "claude-sonnet-4-5-20250929")
    @@ ("opus-4.5" :> "claude-opus-4-5-20251101")
    @@ ("opus-4.5-thinking" :> "claude-opus-4-5-20251101")
    @@ ("opus-4.1" :> "claude-opus-4-1-20250805")
    @@ ("gemini-3-pro" :> "gemini-3-pro-preview")
    @@ ("gemini-3-flash" :> "gemini-2.5-flash")
    @@ ("gpt-5.2" :> "gpt-5.2")
    @@ ("gpt-5.2-high" :> "gpt-5.2")
    @@ ("gpt-5.1" :> "gpt-5")
    @@ ("gpt-5.1-high" :> "gpt-5")
    @@ ("gpt-5.1-codex" :> "gpt-5")
    @@ ("gpt-5.1-codex-high" :> "gpt-5")
    @@ ("gpt-5.1-codex-max" :> "gpt-5")
    @@ ("gpt-5.1-codex-max-high" :> "gpt-5")
    @@ ("grok" :> "grok-4")

DEFAULT_LIMITS == [context |-> 128000, output |-> 16384]

Undefined == "<undefined>"

Inherited == "<inherited>"

(* Keys every object literal answers from Object.prototype. *)
ObjectPrototypeKeys == {"constructor", "toString", "__proto__"}

(* CURSOR_TO_LLM_INFO_MAP[cursorModelId] *)
LookupLlmInfoId(cursorModelId) ==
  IF cursorModelId \in DOMAIN CURSOR_TO_LLM_INFO_MAP
    THEN CURSOR_TO_LLM_INFO_MAP[cursorModelId]
  ELSE IF cursorModelId \in ObjectPrototypeKeys THEN Inherited
  ELSE Undefined

getModelLimits(cursorModelId, ModelInfoMap) ==
  LET llmInfoId == LookupLlmInfoId(cursorModelId)
  IN IF llmInfoId = Undefined THEN DEFAULT_LIMITS
     ELSE IF llmInfoId \notin DOMAIN ModelInfoMap THEN DEFAULT_LIMITS
     ELSE LET info == ModelInfoMap[llmInfoId]
          IN [context |-> IF "contextWindowTokenLimit" \in DOMAIN info
                            THEN info.contextWindowTokenLimit
                          ELSE DEFAULT_LIMITS.context,
              output |-> IF "outputTokenLimit" \in DOMAIN info
                           THEN info.outputTokenLimit
                         ELSE DEFAULT_LIMITS.output]

LlmInfoIds ==
  <<"claude-sonnet-4-5-20250929", "claude-opus-4-5-20251101",
    "claude-opus-4-1-20250805", "gemini-3-pro-preview", "gemini-2.5-flash",
    "gpt-5.2", "gpt-5", "grok-4">>

InfoShapes == {"both", "context", "output"}

(* The entry of the i-th id: limits that tell the ids apart. *)
ModelInfo(i, shape) ==
  CASE shape = "both" -> [contextWindowTokenLimit |-> 100000 * (i + 1),
                          outputTokenLimit |-> 8000 * i]
    [] shape = "context" -> [contextWindowTokenLimit |-> 100000 * (i + 1)]
    [] shape = "output" -> [outputTokenLimit |-> 8000 * i]

ModelInfoMaps ==
  {[k \in {LlmInfoIds[i] : i \in S} |->
      ModelInfo(CHOOSE i \in S : LlmInfoIds[i] = k, shape)] :
     S \in SUBSET (1..Len(LlmInfoIds)), shape \in InfoShapes}

UnmappedIds == {"unknown-model", "auto", "", "opus-4.1-thinking", "constructor"}

CursorModelIds == DOMAIN CURSOR_TO_LLM_INFO_MAP \cup UnmappedIds

(* The variants of the mapping and the model each is a variant of. *)
BaseModel ==
  ("sonnet-4.5-thinking" :> "sonnet-4.5")
    @@ ("opus-4.5-thinking" :> "opus-4.5")
    @@ ("gpt-5.2-high" :> "gpt-5.2")
    @@ ("gpt-5.1-high" :> "gpt-5.1")
    @@ ("gpt-5.1-codex" :> "gpt-5.1")
    @@ ("gpt-5.1-codex-high" :> "gpt-5.1")
    @@ ("gpt-5.1-codex-max" :> "gpt-5.1")
    @@ ("gpt-5.1-codex-max-high" :> "gpt-5.1")

InitLimits ==
  /\ StartState
  /\ input = <<>>
  /\ arg \in [cursorModelId : CursorModelIds, ModelInfoMap : ModelInfoMaps]

GetModelLimits ==
  /\ cpc = "start"
  /\ "cursorModelId" \in DOMAIN arg
  /\ val' = [limits |-> getModelLimits(arg.cursorModelId, arg.ModelInfoMap)]
  /\ cpc' = "limits"
  /\ UNCHANGED <<arg, chatVars, pluginVars, pollVars>>

GetBaseModelLimits ==
  /\ cpc = "limits"
  /\ arg.cursorModelId \in DOMAIN BaseModel
  /\ val' = [limits |-> val.limits,
             baseLimits |-> getModelLimits(BaseModel[arg.cursorModelId],
                                           arg.ModelInfoMap)]
  /\ cpc' = "compared"
  /\ UNCHANGED <<arg, chatVars, pluginVars, pollVars>>

NextLimits == GetModelLimits \/ GetBaseModelLimits

SpecLimits == InitLimits /\ [][NextLimits]_vars

(***************************************************************************)
(* Progress events: a stream in which every frame carries one event of one *)
(* kind, heartbeats and blob requests among them.                          *)
(***************************************************************************)
ProgressFrames ==
  { <<IU(<<u>>)>> : u \in {TextDelta("t1"), Started, Completed, Partial} }
    \cup { <<ExecMsg(1)>>, <<Checkpoint>>, <<Query>>, <<Control(1)>> }

QuietFrames ==
  { <<IU(<<Heartbeat(FALSE)>>)>>, <<KvMsg(Kv(7, "get", "b1", Absent))>>,
    <<KvMsg(Kv(7, "set", "b1", "U"))>> }

NextProgress ==
  \/ GenStart
  \/ InitAppendOk
  \/ SseResponse("ok")
  \/ \E fields \in ProgressFrames \cup QuietFrames : ReadFrame(fields, MaxReads)
  \/ KvAppendOk
  \/ Resume

SpecProgress == Init /\ [][NextProgress]_vars

(***************************************************************************)
(* The text of a trailer frame (agent-service.ts:887-898).  Text is a      *)
(* sequence of characters; "CR" and "LF" stand for the two characters of a *)
(* line end.                                                               *)
(***************************************************************************)
GrpcStatusKey == <<"g", "r", "p", "c", "-", "s", "t", "a", "t", "u", "s", ":">>

GrpcStatusZero == GrpcStatusKey \o <<" ", "0">>

GrpcMessageKey == <<"g", "r", "p", "c", "-", "m", "e", "s", "s", "a", "g", "e", ":">>

UnknownGrpcError == <<"Unknown gRPC error">>

UriMalformed == <<"URI malformed">>

LineEnd == <<"CR", "LF">>

WhiteSpace == {" ", "CR", "LF"}

(* String.prototype.includes *)
Includes(str, pat) == \E i \in 1..Len(str) : HasAt(str, i, pat)

(* The end of the run of characters other than CR and LF that starts at p. *)
RECURSIVE RunEnd(_, _)
RunEnd(str, p) ==
  IF p + 1 <= Len(str) /\ str[p + 1] \notin {"CR", "LF"} THEN RunEnd(str, p + 1)
  ELSE p

(* The starts of the group of /grpc-message:\s*([^\r\n]+)/ for a match of  *)
(* the key at i: after any number of the white space characters that       *)
(* follow the key, at a character other than CR and LF.                    *)
GroupStarts(str, i) ==
  LET j == i + Len(GrpcMessageKey)
  IN {p \in j..Len(str) :
        /\ \A q \in j..(p - 1) : str[q] \in WhiteSpace
        /\ str[p] \notin {"CR", "LF"}}

(* trailer.match(/grpc-message:\s*([^\r\n]+)/)?.[1]: the leftmost match,   *)
(* \s* taking as many characters as it can.                                *)
MatchGrpcMessage(str) ==
  LET at == {i \in 1..Len(str) : HasAt(str, i, GrpcMessageKey) /\ GroupStarts(str, i) # {}}
  IN IF at = {} THEN [found |-> FALSE, group |-> <<>>]
     ELSE LET i == CHOOSE x \in at : \A y \in at : x <= y
              ps == GroupStarts(str, i)
              p == CHOOSE x \in ps : \A y \in ps : y <= x
          IN [found |-> TRUE, group |-> SubSeq(str, p, RunEnd(str, p))]

HexDigits == <<"0", "1", "2", "3", "4", "5", "6", "7", "8", "9", "a", "b", "c", "d", "e", "f">>

IsHex(c) == \E k \in 1..Len(HexDigits) : HexDigits[k] = c

HexValue(c) == (CHOOSE k \in 1..Len(HexDigits) : HexDigits[k] = c) - 1

(* The characters of the codes that the escapes of the inputs name. *)
CharOfCode == (32 :> " ") @@ (37 :> "%") @@ (58 :> ":") @@ (48 :> "0")

(* decodeURIComponent: ok is FALSE when it throws a URIError. *)
RECURSIVE decodeURIComponent(_)
decodeURIComponent(str) ==
  IF str = <<>> THEN [ok |-> TRUE, text |-> <<>>]
  ELSE IF Head(str) # "%" THEN
         LET rest == decodeURIComponent(Tail(str))
         IN [ok |-> rest.ok, text |-> <<Head(str)>> \o rest.text]
  ELSE IF Len(str) < 3 \/ ~IsHex(str[2]) \/ ~IsHex(str[3])
         THEN [ok |-> FALSE, text |-> <<>>]
  ELSE LET rest == decodeURIComponent(SubSeq(str, 4, Len(str)))
       IN [ok |-> rest.ok,
           text |-> <<CharOfCode[16 * HexValue(str[2]) + HexValue(str[3])]>> \o rest.text]

(* The condition of the trailer branch. *)
TrailerIsError(trailer) ==
  Includes(trailer, GrpcStatusKey) /\ ~Includes(trailer, GrpcStatusZero)

(* The chunks the trailer branch yields; a URIError leaves the reader loop *)
(* and is yielded by the outer catch, after which the generator returns.   *)
TrailerChunks(trailer) ==
  IF ~TrailerIsError(trailer) THEN <<>>
  ELSE LET match == MatchGrpcMessage(trailer)
           errorMsg == IF match.found THEN decodeURIComponent(match.group)
                       ELSE [ok |-> TRUE, text |-> UnknownGrpcError]
       IN IF errorMsg.ok THEN <<Chunk("error", errorMsg.text)>>
          ELSE <<Chunk("error", UriMalformed)>>

(* What the server puts in grpc-message: the text with its spaces, percent *)
(* signs and colons escaped.                                               *)
RECURSIVE PercentEncode(_)
PercentEncode(text) ==
  IF text = <<>> THEN <<>>
  ELSE (CASE Head(text) = " " -> <<"%", "2", "0">>
          [] Head(text) = "%" -> <<"%", "2", "5">>
          [] Head(text) = ":" -> <<"%", "3", "a">>
          [] OTHER -> <<Head(text)>>) \o PercentEncode(Tail(text))

NoHeader == <<"none">>

GrpcStatuses == {NoHeader, <<"0">>, <<"2">>, <<"1", "3">>, <<"1", "0">>}

GrpcMessages ==
  {NoHeader, <<"f", "o", "o", " ", "b", "a", "r">>, <<"o", "k">>,
   <<"5", "0", "%", ":", " ", "0">>}

HeaderGaps == {<<>>, <<" ">>}

HeaderLine(key, gap, value) ==
  IF value = NoHeader THEN <<>> ELSE key \o gap \o value \o LineEnd

TrailerText(status, message, gap, statusFirst) ==
  LET s == HeaderLine(GrpcStatusKey, gap, status)
      m == HeaderLine(GrpcMessageKey, gap, PercentEncode(message))
  IN IF message = NoHeader THEN s
     ELSE IF statusFirst THEN s \o m ELSE m \o s

InitTrailer ==
  /\ StartState
  /\ input = <<>>
  /\ arg \in {[status |-> s, message |-> m, gap |-> g,
               trailer |-> TrailerText(s, m, g, f)] :
                s \in GrpcStatuses, m \in GrpcMessages, g \in HeaderGaps,
                f \in BOOLEAN}

CheckTrailer ==
  /\ cpc = "start"
  /\ "trailer" \in DOMAIN arg
  /\ val' = [isError |-> TrailerIsError(arg.trailer)]
  /\ cpc' = "checked"
  /\ UNCHANGED <<arg, chatVars, pluginVars, pollVars>>

YieldTrailerError ==
  /\ cpc = "checked"
  /\ "trailer" \in DOMAIN arg
  /\ val' = [isError |-> val.isError, chunks |-> TrailerChunks(arg.trailer)]
  /\ cpc' = "yielded"
  /\ UNCHANGED <<arg, chatVars, pluginVars, pollVars>>

NextTrailer == CheckTrailer \/ YieldTrailerError

SpecTrailer == InitTrailer /\ [][NextTrailer]_vars

(***************************************************************************)
(* The expiry test of the plugin (plugin.ts:51-57) and its use in the      *)
(* loader's fetch (252-261).  An auth record holds the fields it was       *)
(* stored with: access and expires are optional.                           *)
(***************************************************************************)
MaxNow == 2

ExpiryOffsets == {0, 59999, 60000, 60001, 3600000}

Truthy(str) == str # ""

(* A variant whose buffer excludes the 60th second. *)
accessTokenExpiredStrict(auth, now) ==
  IF "access" \notin DOMAIN auth \/ ~Truthy(auth.access) \/ "expires" \notin DOMAIN auth
    THEN TRUE
  ELSE auth.expires < now + 60 * 1000

accessTokenExpired(auth, now) ==
  IF "access" \notin DOMAIN auth \/ ~Truthy(auth.access) \/ "expires" \notin DOMAIN auth
    THEN TRUE
  ELSE auth.expires <= now + 60 * 1000

AuthRecords(now) ==
  LET base == [type |-> "oauth", refresh |-> "r"]
      withAccess == {base} \cup {base @@ [access |-> a] : a \in {"", "tok"}}
  IN withAccess \cup {r @@ [expires |-> now + d] : r \in withAccess, d \in ExpiryOffsets}

InitExpiry ==
  /\ StartState
  /\ input = <<>>
  /\ arg \in {[auth |-> a, now |-> n] : n \in {t * 1000 : t \in 0..MaxNow},
                                        a \in UNION {AuthRecords(t * 1000) : t \in 0..MaxNow}}

(* if (accessTokenExpired(authRecord)) *)
AccessTokenExpired ==
  /\ cpc = "start"
  /\ "auth" \in DOMAIN arg
  /\ val' = [expired |-> accessTokenExpired(arg.auth, arg.now), refreshCalls |-> 0,
             requests |-> 0]
  /\ cpc' = "tested"
  /\ UNCHANGED <<arg, chatVars, pluginVars, pollVars>>

(* await refreshCursorAccessToken(authRecord, client) *)
RefreshExpired ==
  /\ cpc = "tested"
  /\ "auth" \in DOMAIN arg
  /\ val.expired
  /\ val' = [val EXCEPT !.refreshCalls = @ + 1]
  /\ cpc' = "refreshed"
  /\ UNCHANGED <<arg, chatVars, pluginVars, pollVars>>

(* return fetch(...) *)
SendRequest ==
  /\ "auth" \in DOMAIN arg
  /\ \/ cpc = "tested" /\ ~val.expired
     \/ cpc = "refreshed"
  /\ val' = [val EXCEPT !.requests = @ + 1]
  /\ cpc' = "sent"
  /\ UNCHANGED <<arg, chatVars, pluginVars, pollVars>>

NextExpiry == AccessTokenExpired \/ RefreshExpired \/ SendRequest

SpecExpiry == InitExpiry /\ [][NextExpiry]_vars

(***************************************************************************)
(* The stored refresh field "refreshToken|apiKey" (plugin.ts:62-78).       *)
(***************************************************************************)
MaxToken == 2

MaxKey == 3

(* String.prototype.split("|"): the pieces between the bars. *)
RECURSIVE SplitBar(_, _)
SplitBar(str, piece) ==
  IF str = <<>> THEN <<piece>>
  ELSE IF Head(str) = "|" THEN <<piece>> \o SplitBar(Tail(str), <<>>)
  ELSE SplitBar(Tail(str), Append(piece, Head(str)))

(* The result has no apiKey field when apiKey is undefined. *)
parseRefreshParts(refresh) ==
  LET pieces == SplitBar(refresh, <<>>)
      refreshToken == pieces[1]
      apiKey == IF Len(pieces) >= 2 THEN pieces[2] ELSE <<>>
  IN IF apiKey # <<>> THEN [refreshToken |-> refreshToken, apiKey |-> apiKey]
     ELSE [refreshToken |-> refreshToken]

formatRefreshParts(parts) ==
  IF "apiKey" \in DOMAIN parts /\ parts.apiKey # <<>>
    THEN parts.refreshToken \o <<"|">> \o parts.apiKey
  ELSE parts.refreshToken

RefreshTokens == UNION {[1..n -> {"a", "b"}] : n \in 0..MaxToken}

ApiKeys == UNION {[1..n -> {"k", "|"}] : n \in 0..MaxKey}

InitParts ==
  /\ StartState
  /\ input = <<>>
  /\ arg \in [refreshToken : RefreshTokens, apiKey : ApiKeys]
               \cup [refreshToken : RefreshTokens]

FormatRefreshParts ==
  /\ cpc = "start"
  /\ "refreshToken" \in DOMAIN arg
  /\ val' = [refresh |-> formatRefreshParts(arg)]
  /\ cpc' = "stored"
  /\ UNCHANGED <<arg, chatVars, pluginVars, pollVars>>

ParseRefreshParts ==
  /\ cpc = "stored"
  /\ "refreshToken" \in DOMAIN arg
  /\ val' = [refresh |-> val.refresh, parts |-> parseRefreshParts(val.refresh)]
  /\ cpc' = "parsed"
  /\ UNCHANGED <<arg, chatVars, pluginVars, pollVars>>

NextParts == FormatRefreshParts \/ ParseRefreshParts

SpecParts == InitParts /\ [][NextParts]_vars

(***************************************************************************)
(* The credential file and its manager (storage.ts:40-190) under the       *)
(* high-level functions of jwt.ts:172-221.  The manager is the record      *)
(* val.mgr: the contents of auth.json and the three cached fields.         *)
(***************************************************************************)
MaxClock == 3

thresholdSeconds == 300

JsNull == "<null>"

(* null where an object is expected: a missing file, a failed exchange. *)
NoObject == [a \in {} |-> 0]

JsTruthy(v) == v \notin {"", JsNull, Undefined}

Coalesce(v, d) == IF v \in {JsNull, Undefined} THEN d ELSE v

Field(object, f) == IF f \in DOMAIN object THEN object[f] ELSE Undefined

(* The payload a token's middle part decodes to; null for a token that is *)
(* not a JWT.                                                              *)
decodeJwtPayload(token) ==
  CASE token = "jwt.exp600.sig" -> [sub |-> "user", exp |-> 600]
    [] token = "jwt.exp1200.sig" -> [sub |-> "user", exp |-> 1200]
    [] token = "jwt.noexp.sig" -> [sub |-> "user"]
    [] OTHER -> NoObject

isTokenExpiringSoon(token, currentTime) ==
  LET decoded == decodeJwtPayload(token)
  IN IF decoded = NoObject \/ "exp" \notin DOMAIN decoded THEN TRUE
     ELSE decoded.exp - currentTime < thresholdSeconds

(* JSON.stringify leaves out the keys whose value is undefined. *)
writeAuthData(data) ==
  LET kept == {f \in DOMAIN data : data[f] # Undefined}
  IN [f \in kept |-> data[f]]

setAuthentication(mgr, accessToken, refreshToken, apiKey) ==
  [file |-> writeAuthData([accessToken |-> accessToken, refreshToken |-> refreshToken,
                           apiKey |-> apiKey]),
   cachedAccessToken |-> accessToken,
   cachedRefreshToken |-> refreshToken,
   cachedApiKey |-> Coalesce(apiKey, JsNull)]

(* The three cached fields as the getters load them from the file. *)
LoadCache(mgr, accessToken, refreshToken) ==
  [mgr EXCEPT !.cachedAccessToken = accessToken,
              !.cachedRefreshToken = refreshToken,
              !.cachedApiKey = Coalesce(Field(mgr.file, "apiKey"), JsNull)]

getAccessToken(mgr) ==
  IF JsTruthy(mgr.cachedAccessToken) THEN [ret |-> mgr.cachedAccessToken, mgr |-> mgr]
  ELSE IF JsTruthy(Field(mgr.file, "accessToken"))
    THEN [ret |-> mgr.file.accessToken,
          mgr |-> LoadCache(mgr, mgr.file.accessToken,
                            Coalesce(Field(mgr.file, "refreshToken"), JsNull))]
  ELSE [ret |-> Undefined, mgr |-> mgr]

getRefreshToken(mgr) ==
  IF JsTruthy(mgr.cachedRefreshToken) THEN [ret |-> mgr.cachedRefreshToken, mgr |-> mgr]
  ELSE IF JsTruthy(Field(mgr.file, "refreshToken"))
    THEN [ret |-> mgr.file.refreshToken,
          mgr |-> LoadCache(mgr, Coalesce(Field(mgr.file, "accessToken"), JsNull),
                            mgr.file.refreshToken)]
  ELSE [ret |-> Undefined, mgr |-> mgr]

getApiKey(mgr) ==
  IF JsTruthy(mgr.cachedApiKey) THEN [ret |-> mgr.cachedApiKey, mgr |-> mgr]
  ELSE IF JsTruthy(Field(mgr.file, "apiKey"))
    THEN [ret |-> mgr.file.apiKey, mgr |-> [mgr EXCEPT !.cachedApiKey = mgr.file.apiKey]]
  ELSE [ret |-> Undefined, mgr |-> mgr]

AccessTokens == {"jwt.exp600.sig", "jwt.exp1200.sig", "jwt.noexp.sig", "opaque"}

(* What the exchange and refresh endpoints answer: a pair of tokens, or *)
(* nothing the caller accepts.                                          *)
AuthResults ==
  {NoObject} \cup [accessToken : AccessTokens, refreshToken : {"r1", "r2"}]

ApiKeyInputs == {"key_a", "key_b"}

(* auth.json as an earlier login without a key left it, or no file. *)
StoredFiles ==
  {NoObject} \cup [accessToken : {"jwt.exp600.sig", "opaque"}, refreshToken : {"r1"}]

InitCreds ==
  /\ StartState
  /\ input = <<>>
  /\ arg \in [file : StoredFiles]

(* createCredentialManager(): empty caches over the file on disk. *)
CreateCredentialManager ==
  /\ cpc = "start"
  /\ "file" \in DOMAIN arg
  /\ val' = [mgr |-> [file |-> arg.file, cachedAccessToken |-> JsNull,
                      cachedRefreshToken |-> JsNull, cachedApiKey |-> JsNull],
             now |-> 0, op |-> "createCredentialManager", ret |-> Undefined,
             refreshed |-> FALSE]
  /\ cpc' = "ready"
  /\ UNCHANGED <<arg, chatVars, pluginVars, pollVars>>

AuthenticateWithApiKey ==
  /\ cpc = "ready"
  /\ \E apiKey \in ApiKeyInputs, exchanged \in AuthResults :
       val' = [val EXCEPT
                 !.mgr = IF exchanged # NoObject
                           THEN setAuthentication(val.mgr, exchanged.accessToken,
                                                  exchanged.refreshToken, apiKey)
                         ELSE @,
                 !.op = "authenticateWithApiKey",
                 !.ret = IF exchanged # NoObject THEN "true" ELSE "false",
                 !.refreshed = FALSE]
  /\ UNCHANGED <<arg, cpc, chatVars, pluginVars, pollVars>>

GetValidAccessToken ==
  /\ cpc = "ready"
  /\ \E answer \in AuthResults :
       LET access == getAccessToken(val.mgr)
           refresh == getRefreshToken(access.mgr)
       IN IF JsTruthy(access.ret) /\ ~isTokenExpiringSoon(access.ret, val.now)
            THEN val' = [val EXCEPT !.mgr = access.mgr, !.op = "getValidAccessToken",
                                    !.ret = access.ret, !.refreshed = FALSE]
          ELSE IF JsTruthy(refresh.ret) /\ answer # NoObject
            THEN val' = [val EXCEPT
                           !.mgr = setAuthentication(refresh.mgr, answer.accessToken,
                                                     answer.refreshToken, Undefined),
                           !.op = "getValidAccessToken",
                           !.ret = answer.accessToken,
                           !.refreshed = TRUE]
          ELSE val' = [val EXCEPT !.mgr = refresh.mgr, !.op = "getValidAccessToken",
                                  !.ret = Coalesce(access.ret, JsNull),
                                  !.refreshed = FALSE]
  /\ UNCHANGED <<arg, cpc, chatVars, pluginVars, pollVars>>

GetApiKey ==
  /\ cpc = "ready"
  /\ LET got == getApiKey(val.mgr)
     IN val' = [val EXCEPT !.mgr = got.mgr, !.op = "getApiKey", !.ret = got.ret,
                           !.refreshed = FALSE]
  /\ UNCHANGED <<arg, cpc, chatVars, pluginVars, pollVars>>

ClearCache ==
  /\ cpc = "ready"
  /\ val' = [val EXCEPT !.mgr.cachedAccessToken = JsNull,
                        !.mgr.cachedRefreshToken = JsNull,
                        !.mgr.cachedApiKey = JsNull,
                        !.op = "clearCache", !.ret = Undefined, !.refreshed = FALSE]
  /\ UNCHANGED <<arg, cpc, chatVars, pluginVars, pollVars>>

(* Date.now() moves on between the calls. *)
ClockTick ==
  /\ cpc = "ready"
  /\ val.now < MaxClock * thresholdSeconds
  /\ val' = [val EXCEPT !.now = @ + thresholdSeconds]
  /\ UNCHANGED <<arg, cpc, chatVars, pluginVars, pollVars>>

NextCreds ==
  \/ CreateCredentialManager
  \/ AuthenticateWithApiKey
  \/ GetValidAccessToken
  \/ GetApiKey
  \/ ClearCache
  \/ ClockTick

SpecCreds == InitCreds /\ [][NextCreds]_vars

(***************************************************************************)
(* The fetch wrapper the loader returns (plugin.ts:137-175, 239-276) and   *)
(* its later form (part_001:155-200, 290-340).  A request is its URL and   *)
(* the Authorization header it carries, if any.                            *)
(***************************************************************************)
CursorSh == <<"c", "u", "r", "s", "o", "r", ".", "s", "h">>

ApiCursorCom == <<"a", "p", "i", ".", "c", "u", "r", "s", "o", "r", ".", "c", "o", "m">>

OpenAiCom == <<"o", "p", "e", "n", "a", "i", ".", "c", "o", "m">>

ChatCompletionsPath == <<"/", "v", "1", "/", "c", "h", "a", "t", "/", "c", "o", "m", "p",
  "l", "e", "t", "i", "o", "n", "s">>

CURSOR_API_BASE_URL == <<"h", "t", "t", "p", "s", ":", "/", "/", "a", "p", "i", "2", ".",
  "c", "u", "r", "s", "o", "r", ".", "s", "h">>

isCursorApiRequest(url) ==
  Includes(url, CursorSh) \/ Includes(url, ApiCursorCom) \/ Includes(url, OpenAiCom)

isCursorApiRequestPart001(url) ==
  Includes(url, CursorSh) \/ Includes(url, ApiCursorCom)

isOpenAIChatRequest(url) == Includes(url, ChatCompletionsPath)

isOAuthAuth(auth) == auth.type = "oauth"

Bearer(accessToken) == <<"Bearer", accessToken>>

(* headers.set("Authorization", ...) over the caller's headers. *)
prepareCursorRequest(url, headers, accessToken) ==
  [url |-> url, authorization |-> Bearer(accessToken), client |-> "cli"]

(* fetch(input, init): the request as the caller made it. *)
PlainRequest(url, headers) ==
  [url |-> url, authorization |-> headers, client |-> "none"]

(* The record refreshCursorAccessToken returns when the refresh succeeds. *)
RefreshedAuth(auth, now) ==
  [type |-> "oauth", refresh |-> auth.refresh, access |-> "tok2",
   expires |-> now + 3600 * 1000]

(* The host of an absolute URL: what stands between "://" and the next *)
(* "/", "?" or "#".                                                     *)
UrlHost(url) ==
  LET start == (CHOOSE i \in 1..Len(url) : HasAt(url, i, <<":", "/", "/">>)) + 3
      stops == {i \in start..Len(url) : url[i] \in {"/", "?", "#"}}
      stop == IF stops = {} THEN Len(url) + 1
              ELSE CHOOSE i \in stops : \A j \in stops : i <= j
  IN SubSeq(url, start, stop - 1)

EndsWith(str, suffix) ==
  Len(str) >= Len(suffix) /\ SubSeq(str, Len(str) - Len(suffix) + 1, Len(str)) = suffix

(* A host of Cursor's API: cursor.sh, cursor.com or a subdomain of one. *)
IsCursorApiHost(host) ==
  \E domain \in {CursorSh, <<"c", "u", "r", "s", "o", "r", ".", "c", "o", "m">>} :
    host = domain \/ EndsWith(host, <<".">> \o domain)

RequestUrls ==
  {<<"h", "t", "t", "p", "s", ":", "/", "/", "a", "p", "i", "2", ".", "c", "u", "r", "s",
    "o", "r", ".", "s", "h", "/", "r", "p", "c">>,
   <<"h", "t", "t", "p", "s", ":", "/", "/", "a", "p", "i", ".", "c", "u", "r", "s", "o",
     "r", ".", "c", "o", "m", "/", "v", "0", "/", "m", "e">>,
   <<"h", "t", "t", "p", "s", ":", "/", "/", "a", "p", "i", ".", "o", "p", "e", "n", "a",
     "i", ".", "c", "o", "m", "/", "v", "1", "/", "m", "o", "d", "e", "l", "s">>,
   <<"h", "t", "t", "p", "s", ":", "/", "/", "e", "x", "a", "m", "p", "l", "e", ".", "c",
     "o", "m", "/", "v", "1", "/", "c", "h", "a", "t", "/", "c", "o", "m", "p", "l", "e",
     "t", "i", "o", "n", "s">>,
   <<"h", "t", "t", "p", "s", ":", "/", "/", "e", "x", "a", "m", "p", "l", "e", ".", "c",
     "o", "m", "/", "?", "u", "=", "c", "u", "r", "s", "o", "r", ".", "s", "h">>,
   <<"h", "t", "t", "p", "s", ":", "/", "/", "e", "x", "a", "m", "p", "l", "e", ".", "c",
     "o", "m", "/", "u", "p">>,
   <<"h", "t", "t", "p", "s", ":", "/", "/", "c", "u", "r", "s", "o", "r", ".", "s", "h",
     ".", "e", "x", "a", "m", "p", "l", "e", ".", "c", "o", "m", "/">>}

CallerHeaders == {<<>>, Bearer("caller")}

FetchAuthRecords ==
  AuthRecords(0) \cup {[type |-> "api", key |-> "k"]}

InitLoader ==
  /\ StartState
  /\ input = <<>>
  /\ arg \in [url : RequestUrls, headers : CallerHeaders, stored : FetchAuthRecords,
              refreshed : BOOLEAN, handled : BOOLEAN]

(* loader.fetch of plugin.ts *)
LoaderFetch ==
  /\ cpc = "start"
  /\ "url" \in DOMAIN arg
  /\ LET expired == isOAuthAuth(arg.stored) /\ accessTokenExpired(arg.stored, 0)
         authRecord == IF expired /\ arg.refreshed THEN RefreshedAuth(arg.stored, 0)
                       ELSE arg.stored
     IN val' = [loader |-> "plugin.ts",
                sent |->
                  IF ~isCursorApiRequest(arg.url) THEN PlainRequest(arg.url, arg.headers)
                  ELSE IF ~isOAuthAuth(arg.stored) THEN PlainRequest(arg.url, arg.headers)
                  ELSE IF "access" \notin DOMAIN authRecord \/ ~Truthy(authRecord.access)
                    THEN PlainRequest(arg.url, arg.headers)
                  ELSE prepareCursorRequest(arg.url, arg.headers, authRecord.access)]
  /\ cpc' = "fetched"
  /\ UNCHANGED <<arg, chatVars, pluginVars, pollVars>>

(* loader.fetch of part_001: chat completions go through a CursorClient; *)
(* when that gives no response the request itself is sent.               *)
LoaderFetchPart001 ==
  /\ cpc = "start"
  /\ "url" \in DOMAIN arg
  /\ LET expired == isOAuthAuth(arg.stored) /\ accessTokenExpired(arg.stored, 0)
         authRecord == IF expired /\ arg.refreshed THEN RefreshedAuth(arg.stored, 0)
                       ELSE arg.stored
     IN val' = [loader |-> "part_001",
                sent |->
                  IF ~isCursorApiRequestPart001(arg.url) /\ ~isOpenAIChatRequest(arg.url)
                    THEN PlainRequest(arg.url, arg.headers)
                  ELSE IF ~isOAuthAuth(arg.stored) THEN PlainRequest(arg.url, arg.headers)
                  ELSE IF "access" \notin DOMAIN authRecord \/ ~Truthy(authRecord.access)
                    THEN PlainRequest(arg.url, arg.headers)
                  ELSE IF isOpenAIChatRequest(arg.url) /\ arg.handled
                    THEN prepareCursorRequest(CURSOR_API_BASE_URL, <<>>, authRecord.access)
                  ELSE prepareCursorRequest(arg.url, arg.headers, authRecord.access)]
  /\ cpc' = "fetched"
  /\ UNCHANGED <<arg, chatVars, pluginVars, pollVars>>

NextLoader == LoaderFetch \/ LoaderFetchPart001

SpecLoader == InitLoader /\ [][NextLoader]_vars

(***************************************************************************)
(* cleanupExpiredSessions over a session map (part_005:309-325).  The map  *)
(* is a function from session ids to sessions and the sequence of its keys *)
(* in insertion order; an iterator is named by what its return() does.     *)
(***************************************************************************)
ExpiringIds == {"s1", "s2", "s3"}

IteratorKinds == {"none", "noReturn", "returns", "throws"}

ActivityTimes == {0, 5, 12}

CleanupTimeouts == {0, 5}

CleanupNows == {10}

KeyOrders(ids) ==
  {order \in [1..Cardinality(ids) -> ids] : \A i, j \in DOMAIN order : i # j => order[i] # order[j]}

SessionMaps ==
  UNION {[keys : KeyOrders(ids),
          entries : [ids -> [lastActivity : ActivityTimes, iterator : IteratorKinds]]] :
         ids \in SUBSET ExpiringIds}

(* sessionMap.delete(sessionId) *)
MapDelete(sessionMap, sessionId) ==
  [keys |-> SelectSeq(sessionMap.keys, LAMBDA k : k # sessionId),
   entries |-> [k \in DOMAIN sessionMap.entries \ {sessionId} |-> sessionMap.entries[k]]]

(* A variant that deletes after the try statement, not in its finally. *)
CloseExpiredDeleteAfter(sessionMap, sessionId) ==
  IF sessionMap.entries[sessionId].iterator = "throws" THEN sessionMap
  ELSE MapDelete(sessionMap, sessionId)

(* try { await session.iterator?.return?.() } catch { warn } finally { delete } *)
CloseExpired(sessionMap, sessionId) == MapDelete(sessionMap, sessionId)

InitCleanup ==
  /\ StartState
  /\ input = <<>>
  /\ arg \in [sessionMap : SessionMaps, timeoutMs : CleanupTimeouts, now : CleanupNows]

(* The call: the for-of loop starts at the first key. *)
CleanupCall ==
  /\ cpc = "start"
  /\ "sessionMap" \in DOMAIN arg
  /\ val' = [sessionMap |-> arg.sessionMap, at |-> 1, returned |-> {}, warned |-> {}]
  /\ cpc' = "iterating"
  /\ UNCHANGED <<arg, chatVars, pluginVars, pollVars>>

(* One turn of the loop.  The map's iterator goes on to the entry after *)
(* this one: when the entry was deleted the later keys have moved up.    *)
CleanupVisit ==
  /\ cpc = "iterating"
  /\ val.at <= Len(val.sessionMap.keys)
  /\ LET sessionId == val.sessionMap.keys[val.at]
         session == val.sessionMap.entries[sessionId]
         after == IF arg.now - session.lastActivity > arg.timeoutMs
                    THEN CloseExpired(val.sessionMap, sessionId)
                  ELSE val.sessionMap
     IN val' = IF arg.now - session.lastActivity > arg.timeoutMs
                 THEN [sessionMap |-> after,
                       at |-> IF sessionId \in DOMAIN after.entries THEN val.at + 1
                              ELSE val.at,
                       returned |-> IF session.iterator \in {"returns", "throws"}
                                      THEN val.returned \cup {sessionId}
                                    ELSE val.returned,
                       warned |-> IF session.iterator = "throws"
                                    THEN val.warned \cup {sessionId}
                                  ELSE val.warned]
               ELSE [val EXCEPT !.at = @ + 1]
  /\ UNCHANGED <<arg, cpc, chatVars, pluginVars, pollVars>>

(* The iterator of the map is exhausted: the promise resolves. *)
CleanupReturn ==
  /\ cpc = "iterating"
  /\ val.at > Len(val.sessionMap.keys)
  /\ cpc' = "cleaned"
  /\ UNCHANGED <<arg, val, chatVars, pluginVars, pollVars>>

NextCleanup == CleanupCall \/ CleanupVisit \/ CleanupReturn

SpecCleanup == InitCleanup /\ [][NextCleanup]_vars

----------------------------------------------------------------------------
(* Properties *)

SessionAppend(e) == e.rid = RequestIdValue /\ e.st # "failed"

(* The appends of the session that were not refused, in issue order. *)
SessionWire == SelectSeq(wire, SessionAppend)

IsReply(e) == e.kind \in {"result", "stream_close"}

(* C1: within one chatStream session the append_seqno values of the        *)
(* successive BidiAppend calls are exactly 0, 1, 2, ... (no repeat, no     *)
(* gap), for any interleaving of the run request, the blob replies and the *)
(* tool results.                                                           *)
C1_SeqnoIsPosition ==
  \A i \in 1..Len(SessionWire) : SessionWire[i].seqno = i - 1

(* C2: two sendXResult calls for two different exec ids that run           *)
(* concurrently never have BidiAppend calls with the same append_seqno in  *)
(* flight.                                                                 *)
C2_ConcurrentSendsDistinctSeqno ==
  \A t, u \in Tasks :
    (/\ t # u
     /\ tasks[t].pc # "idle" /\ tasks[u].pc # "idle"
     /\ Head(tasks[t].msgs) # Head(tasks[u].msgs))
    => wire[tasks[t].w].seqno # wire[tasks[u].w].seqno

(* C3: for one exec id the result append is sent before the stream_close   *)
(* append, and no other append lies between them in the outbound log.      *)
C3_ResultCloseContiguous ==
  \A j \in 1..Len(wire) :
    wire[j].kind = "stream_close"
      => /\ j > 1
         /\ wire[j - 1].kind = "result"
         /\ wire[j - 1].id = wire[j].id

PairSent(w, e) ==
  \E i, j \in 1..Len(w) :
    /\ i < j
    /\ w[i].kind = "result" /\ w[i].id = e /\ w[i].st = "ok"
    /\ w[j].kind = "stream_close" /\ w[j].id = e /\ w[j].st = "ok"

RemovedOnlyWhenSentOrDropped ==
  \A e \in pendingExecs \ pendingExecs' : ~inMap' \/ PairSent(wire', e)

NoReplyAfterTurnEnd == \A i \in 1..Len(wire) : IsReply(wire[i]) => ~wire[i].te

(* C4: a pendingExecs entry is removed only by sending its (result,        *)
(* stream_close) pair or by dropping the session, and no exec result or    *)
(* stream_close append is sent after the session's turn-end.               *)
C4_NoOrphanReplies ==
  [][RemovedOnlyWhenSentOrDropped]_vars /\ []NoReplyAfterTurnEnd

IsKvReply(e) == e.kind \in {"get_blob_result", "set_blob_result"}
KvReplyWire == SelectSeq(wire, IsKvReply)
ReplyKindOf(messageType) ==
  IF messageType = "get_blob_args" THEN "get_blob_result" ELSE "set_blob_result"

(* C5: every get_blob_args and every set_blob_args handled so far has been *)
(* answered by exactly one KvClientMessage append of the matching kind     *)
(* that carries the server's id.                                           *)
C5_EveryKvAnswered ==
  /\ Len(KvReplyWire) = Len(kvSeen)
  /\ \A i \in 1..Len(kvSeen) :
       i <= Len(KvReplyWire) =>
         /\ KvReplyWire[i].kind = ReplyKindOf(kvSeen[i].messageType)
         /\ KvReplyWire[i].id = kvSeen[i].id

Norm(d) == IF d = Absent THEN "E" ELSE d

(* The data of the last set_blob_args for blob b among the messages seen,  *)
(* the empty blob when there is none.                                      *)
RECURSIVE LastSet(_, _)
LastSet(seen, b) ==
  IF seen = <<>> THEN "E"
  ELSE LET m == seen[Len(seen)] IN
       IF m.messageType = "set_blob_args" /\ m.blobId = b THEN Norm(m.blobData)
       ELSE LastSet(SubSeq(seen, 1, Len(seen) - 1), b)

HandlesKv == Len(kvSeen') = Len(kvSeen) + 1

SetTwiceIsSetOnce ==
  (/\ HandlesKv
   /\ kvSeen # <<>>
   /\ kvSeen'[Len(kvSeen')].messageType = "set_blob_args"
   /\ kvSeen[Len(kvSeen)].messageType = "set_blob_args"
   /\ kvSeen'[Len(kvSeen')].blobId = kvSeen[Len(kvSeen)].blobId
   /\ kvSeen'[Len(kvSeen')].blobData = kvSeen[Len(kvSeen)].blobData)
  => /\ blobStore' = blobStore
     /\ pendingAssistantBlobs' = pendingAssistantBlobs

GetReturnsLastSet ==
  (/\ HandlesKv
   /\ kvSeen'[Len(kvSeen')].messageType = "get_blob_args")
  => /\ Len(wire') = Len(wire) + 1
     /\ wire'[Len(wire')].kind = "get_blob_result"
     /\ Norm(wire'[Len(wire')].data) = LastSet(kvSeen, kvSeen'[Len(kvSeen')].blobId)

(* C6: setting a blob id to the same data twice leaves the blob store and  *)
(* the recovered assistant blobs as one set leaves them; a get returns the *)
(* bytes of the last set of that id, and the empty blob when the id was    *)
(* never set.                                                              *)
C6_SetIdempotentGetReturns ==
  [][SetTwiceIsSetOnce /\ GetReturnsLastSet]_vars

IsText(c) == c.type = "text"
IsBlobChunk(c) == c.type = "kv_blob_assistant"
IsDone(c) == c.type = "done"

(* The contents of the assistant blobs set so far, in arrival order. *)
RECURSIVE Recovered(_)
Recovered(seen) ==
  IF seen = <<>> THEN <<>>
  ELSE LET m == Head(seen) IN
       (IF m.messageType = "set_blob_args" /\ m.blobData # Absent
        THEN AssistantContents(m.blobData) ELSE <<>>)
       \o Recovered(Tail(seen))

TurnEndDone == turnEnded /\ out # <<>> /\ IsDone(out[Len(out)])

(* C7: at turn-end, when no text was streamed, the recovered contents of   *)
(* the assistant blobs are the chunks right before the done chunk, in      *)
(* arrival order; when text was streamed, no recovered blob is emitted.    *)
C7_RecoveredBlobsBeforeDone ==
  TurnEndDone =>
    LET rec == Recovered(kvSeen)
        n == Len(rec)
        emitted == SelectSeq(out, IsBlobChunk)
    IN IF SelectSeq(out, IsText) # <<>> THEN emitted = <<>>
       ELSE /\ Len(emitted) = n
            /\ Len(out) > n
            /\ \A k \in 1..n :
                 out[Len(out) - 1 - n + k] = Chunk("kv_blob_assistant", rec[k])

C7_Witness ==
  /\ TurnEndDone
  /\ gpc = "returned"
  /\ SelectSeq(out, IsText) = <<>>
  /\ Len(Recovered(kvSeen)) = 3
  /\ Len(SelectSeq(out, IsBlobChunk)) = 3

(* C8: a trailer frame with a non-zero grpc-status aborts the session: its *)
(* error chunk is the last chunk, no done chunk and no other event follows.*)
C8_TrailerErrorIsLast ==
  \A i \in 1..Len(out) : out[i] = Chunk("error", "grpc") => i = Len(out)

(* C9: once the turn has ended no further frame is consumed, the done      *)
(* chunk is yielded once and as the last chunk, and the generator ends     *)
(* with currentRequestId cleared.                                          *)
C9_TurnEndedStopsWithDone ==
  /\ turnEnded => gpc # "awaitRead"
  /\ \A i \in 1..Len(out) : out[i] # Chunk("text", "late")
  /\ turnEnded => \A i \in 1..Len(out) : IsDone(out[i]) => i = Len(out)
  /\ (turnEnded /\ gpc = "returned")
       => /\ TurnEndDone
          /\ Len(SelectSeq(out, IsDone)) = 1
          /\ currentRequestId = Null

C9_Witness ==
  /\ turnEnded
  /\ gpc = "returned"
  /\ heartbeatSinceProgress = 0
  /\ reads < MaxReads
  /\ out = <<Chunk("text", "t1"), Chunk("done", "")>>

IsEventYield(o) == o.op = "yield" /\ o.chunk.type \in {"checkpoint", "exec_server_abort"}
EndsTurn(o) == o.op \in {"end", "hb"}
Suspends(o) == o.op \in {"yield", "kv"}

(* C10: resuming the generator after a checkpoint or an exec_server_abort  *)
(* chunk does not end the session: the turn is not ended, the steps left   *)
(* for the frame are taken (an exec_server_message after the checkpoint is *)
(* yielded as exec_request) and then the reader waits for the next frame.  *)
C10_Step ==
  (/\ gpc = "yield"
   /\ IsEventYield(Head(todo))
   /\ ~turnEnded
   /\ SelectSeq(Tail(todo), EndsTurn) = <<>>)
  => /\ ~turnEnded'
     /\ gpc' # "returned"
     /\ LET left == SelectSeq(Tail(todo), Suspends) IN
        IF left = <<>> THEN gpc' = "awaitRead" /\ out' = out
        ELSE IF left[1].op = "yield" THEN gpc' = "yield" /\ out' = Append(out, left[1].chunk)
        ELSE gpc' = "awaitKv" /\ out' = out

C10_CheckpointAndAbortGoOn == [][C10_Step]_vars

C10_Witness ==
  /\ gpc = "awaitRead"
  /\ ~turnEnded
  /\ \E i \in 1..Len(out) : out[i] = Chunk("exec_server_abort", "")
  /\ \E i \in 1..(Len(out) - 1) :
       out[i] = Chunk("checkpoint", "") /\ out[i + 1] = Chunk("exec_request", 1)

IsBeatFrame(f) == f.fields = <<IU(<<Heartbeat(FALSE)>>)>> \/ f.fields = <<IU(<<Heartbeat(TRUE)>>)>>
IsIdleBeatFrame(f) == f.fields = <<IU(<<Heartbeat(TRUE)>>)>>
IsTextFrame(f) == f.fields = <<IU(<<TextDelta("t1")>>)>>

(* The index of the last progress event among the frames received, 0 for none. *)
LastProgressAt ==
  LET at == {i \in 1..Len(inbox) : IsTextFrame(inbox[i])}
  IN IF at = {} THEN 0 ELSE CHOOSE i \in at : \A j \in at : j <= i

BeatsSinceProgress ==
  LET last == LastProgressAt
  IN Cardinality({i \in (last + 1)..Len(inbox) : IsBeatFrame(inbox[i])})

IdleLimitPassed == inbox # <<>> /\ IsIdleBeatFrame(inbox[Len(inbox)])

(* C11: in a stream of text events and heartbeats the turn is ended exactly *)
(* when the heartbeats received since the last progress event reach 1000 or *)
(* a heartbeat arrives after the idle limit: with fewer than 1000 beats and *)
(* the idle time below the limit the stream goes on, and the counter is the *)
(* number of heartbeats since the last progress event.                      *)
C11_HeartbeatLimitCloses ==
  (gpc \in {"awaitRead", "returned"} \/ (gpc = "yield" /\ Head(todo).chunk.type # "text"))
  => LET beats == BeatsSinceProgress IN
     /\ heartbeatSinceProgress = beats
     /\ turnEnded <=> (beats >= HEARTBEAT_MAX_PROGRESS \/ IdleLimitPassed)
     /\ beats <= HEARTBEAT_MAX_PROGRESS

C11_Witness ==
  /\ gpc = "returned"
  /\ turnEnded
  /\ LastProgressAt = 1
  /\ ~IdleLimitPassed
  /\ BeatsSinceProgress = HEARTBEAT_MAX_PROGRESS
  /\ Len(SelectSeq(out, LAMBDA c : c.type = "heartbeat")) = HEARTBEAT_MAX_PROGRESS - 1
  /\ out[Len(out)] = Chunk("done", "")

DeadlineClosed ==
  (aborted /\ gpc = "returned" /\ ~turnEnded)
  => /\ SelectSeq(out, IsDone) = <<>>
     /\ currentRequestId = Null

NoReadAfterAbort == aborted => inbox' = inbox

Closed == gpc = "returned"

(* C13: a sendXResult call made after the session is closed is rejected:   *)
(* it issues no BidiAppend.                                                *)
C13_ClosedRejectsSends ==
  [][(Closed /\ starts' = starts + 1) => wire' = wire]_vars

IsMalformed(f) ==
  f.flags = 0 /\ (f.status = "malformed" \/ \E i \in 1..Len(f.fields) : f.fields[i].bad)

(* C14: a malformed varint or truncated LEN payload in a frame, at the top *)
(* level or in a field payload, is fatal: once such a frame is read the    *)
(* error chunk is the last chunk and the generator never again waits for a *)
(* read, so that no further field or frame is handled.                     *)
C14_MalformedIsFatal ==
  \A k \in 1..Len(inbox) :
    IsMalformed(inbox[k])
      => /\ gpc \in {"yield", "returned"}
         /\ out # <<>>
         /\ out[Len(out)].type = "error"

GeneratorAppends == {"run_request", "get_blob_result", "set_blob_result"}

(* C15: a failed HTTP write of the session, the BidiAppend of a KV reply   *)
(* included, is fatal: once such an append has failed the error chunk is   *)
(* the last chunk and the generator never again waits for a read, so that  *)
(* no further inbound event is yielded.                                    *)
C15_FailedAppendIsFatal ==
  \A i \in 1..Len(wire) :
    (wire[i].kind \in GeneratorAppends /\ wire[i].st = "failed")
      => /\ gpc \in {"yield", "returned"}
         /\ out # <<>>
         /\ out[Len(out)].type = "error"

IsSendAppend(e) == e.kind \in {"result", "stream_close"}

(* What one pass of the loop of sendToolResultsToCursor over msgs does up  *)
(* to its first await, said with the messages of unknown id left out: pend *)
(* is pendingExecs and w the wire when the pass starts.                    *)
LoopOutcome(t, msgs, pend, w, processedAny) ==
  LET known == {i \in 1..Len(msgs) : msgs[i] \in pend} IN
  /\ pendingExecs' = pend
  /\ IF known = {}
     THEN /\ wire' = w
          /\ tasks'[t].pc = "idle"
          /\ sessState' = IF processedAny THEN "running" ELSE sessState
     ELSE LET i == CHOOSE j \in known : \A k \in known : j <= k IN
          /\ sessState' = sessState
          /\ IF currentRequestId = Null
             THEN wire' = w /\ tasks'[t].pc = "idle"
             ELSE /\ Len(wire') = Len(w) + 1
                  /\ SubSeq(wire', 1, Len(w)) = w
                  /\ wire'[Len(wire')].kind = "result"
                  /\ wire'[Len(wire')].id = msgs[i]
                  /\ tasks'[t].pc = "awaitResult"
                  /\ tasks'[t].msgs = SubSeq(msgs, i, Len(msgs))

NoAppendForUnknown ==
  \A i \in 1..Len(wire) : IsSendAppend(wire[i]) => wire[i].id # UnknownToolCallId

DropsUnknown ==
  /\ \A t \in Tasks, msgs \in MsgLists :
       TaskStart(t, msgs) => LoopOutcome(t, msgs, pendingExecs, wire, FALSE)
  /\ \A t \in Tasks :
       (CloseOk(t) /\ ~tasks[t].direct)
         => LoopOutcome(t, Tail(tasks[t].msgs),
                        IF inMap THEN pendingExecs \ {Head(tasks[t].msgs)} ELSE pendingExecs,
                        Settle(wire, tasks[t].w, "ok"), TRUE)

(* C16: sendToolResultsToCursor drops a tool message whose tool_call_id is *)
(* not in pendingExecs: no BidiAppend is issued for it, pendingExecs and   *)
(* the session state are as they would be without it, no error is raised,  *)
(* and the messages that follow it are still processed.                    *)
C16_UnknownToolResultDropped == []NoAppendForUnknown /\ [][DropsUnknown]_vars

(* A call with an unknown id followed by a pending one has dropped the     *)
(* first and issued the result append for the second.                      *)
C16_Witness ==
  \E t \in Tasks :
    /\ tasks[t].pc = "awaitResult"
    /\ tasks[t].dropped = 1
    /\ tasks[t].msgs = <<1>>
    /\ wire[Len(wire)].kind = "result"
    /\ wire[Len(wire)].id = 1

SetInThisSession(data) ==
  \E k \in 1..Len(kvSeen) :
    kvSeen[k].messageType = "set_blob_args" /\ kvSeen[k].blobData = data

(* C17: the blob store is local to a session: a get of the running session *)
(* returns a blob only if a set of this same session stored it, also when  *)
(* the session is a later chatStream call on the same client.              *)
C17_BlobStoreSessionLocal ==
  \A i \in 1..Len(wire) :
    (wire[i].rid = requestId /\ wire[i].kind = "get_blob_result" /\ wire[i].data # Absent)
      => SetInThisSession(wire[i].data)

SessionActive == gpc \notin {"init", "returned"}

(* The tool-result appends of the first session carry its own request id. *)
SendsCarryOwnRequestId ==
  \A i \in 1..Len(wire) : IsSendAppend(wire[i]) => wire[i].rid = requestId

(* A step of the other session leaves alone the request id and the seqno  *)
(* the active session's next append would use.                            *)
PeerStepKeepsSessionFields ==
  (SessionActive /\ peerVars' # peerVars)
    => /\ currentRequestId' = currentRequestId
       /\ currentAppendSeqno' = currentAppendSeqno

(* C18: two chatStream sessions active at once are independent: no step   *)
(* of one changes the request id or the append seqno the other's appends  *)
(* use, or makes the other's sends be rejected.                           *)
C18_ParallelSessionsIndependent ==
  []SendsCarryOwnRequestId /\ [][PeerStepKeepsSessionFields]_vars

Delivered == SubSeq(input, 1, pos)

(* C19: however the bytes of a frame sequence are split into read chunks,  *)
(* the reader has parsed the frames, with the flags and payloads and in    *)
(* the order, that it parses when the same bytes arrive in one chunk, and  *)
(* the bytes of an incomplete frame are in the buffer for the next read.   *)
C19_SplitsParseAlike ==
  LET one == ParseFrom(Delivered, 0, <<>>) IN
  /\ parsedFrames = one.frames
  /\ buffer = SubSeq(Delivered, one.offset + 1, pos)
  /\ EncodeFrames(parsedFrames) \o buffer = Delivered

(* A frame was parsed and the first bytes of the next one, header and     *)
(* part of the payload, are buffered while the rest is yet to arrive.      *)
C19_Witness ==
  /\ Len(parsedFrames) = 1
  /\ Len(buffer) > 5
  /\ pos < Len(input)
  /\ gpc = "awaitRead"

EventTypes == {"text", "tool_call_started", "tool_call_completed", "partial_tool_call"}

(* The chunk a field of an interaction_update causes, if any. *)
UpdChunk(u) ==
  IF u.f \in {1, 8} THEN (IF u.text \notin {Absent, ""} THEN <<Chunk("text", u.text)>> ELSE <<>>)
  ELSE IF u.f = 2 /\ u.ok THEN <<Chunk("tool_call_started", "")>>
  ELSE IF u.f = 3 /\ u.ok THEN <<Chunk("tool_call_completed", "")>>
  ELSE IF u.f = 7 /\ u.ok THEN <<Chunk("partial_tool_call", "")>>
  ELSE <<>>

RECURSIVE UpdChunks(_)
UpdChunks(upds) ==
  IF upds = <<>> THEN <<>> ELSE UpdChunk(Head(upds)) \o UpdChunks(Tail(upds))

RECURSIVE FieldChunks(_)
FieldChunks(fields) ==
  IF fields = <<>> THEN <<>>
  ELSE (IF Head(fields).num = 1 THEN UpdChunks(Head(fields).upds) ELSE <<>>)
       \o FieldChunks(Tail(fields))

(* The event chunks of the frames read so far, in the order of the wire. *)
RECURSIVE WireEvents(_)
WireEvents(frames) ==
  IF frames = <<>> THEN <<>>
  ELSE FieldChunks(Head(frames).fields) \o WireEvents(Tail(frames))

RECURSIVE IsSubseq(_, _)
IsSubseq(a, b) ==
  IF a = <<>> THEN TRUE
  ELSE IF b = <<>> THEN FALSE
  ELSE IF Head(a) = Head(b) THEN IsSubseq(Tail(a), Tail(b))
  ELSE IsSubseq(a, Tail(b))

OutEvents == SelectSeq(out, LAMBDA c : c.type \in EventTypes)

(* C20: the chunks chatStream yields for inbound events are in the order   *)
(* of the wire fields that caused them, also for an interaction_update     *)
(* that carries several updates.                                           *)
C20_YieldedInArrivalOrder == IsSubseq(OutEvents, WireEvents(inbox))

(* C21: refresh attempts coalesce: of the requests that find the stored    *)
(* credential expired at the same time, one sends the HTTP refresh call    *)
(* and the others wait for it, so that no two refresh calls are in flight  *)
(* at once.                                                                *)
C21_RefreshSingleFlight ==
  Cardinality({r \in Requests : fetches[r].pc = "refreshing"}) <= 1

(* C22: a Cursor call answered with 401 is followed by a token refresh and *)
(* one retry: fetch never gives a 401 back to its caller after a single    *)
(* call.                                                                   *)
C22_UnauthorizedRefreshesAndRetries ==
  \A r \in Requests :
    (fetches[r].pc = "idle" /\ fetches[r].status = 401) => fetches[r].calls = 2

FailedRefresh(resp) == resp.throws \/ ~resp.ok \/ ~(resp.access /\ resp.refresh)

(* C23: after a failed token refresh (no 200, or a body without both       *)
(* tokens) the request goes on with the token it had, and no token of the  *)
(* failed refresh is stored or used.                                       *)
C23_FailedRefreshKeepsToken ==
  \A i \in 1..Len(refreshLog) :
    (refreshLog[i].answered /\ FailedRefresh(refreshLog[i].resp))
      => /\ stored.access # i
         /\ \A k \in 1..Len(apiLog) : apiLog[k].access # i
         /\ LET f == fetches[refreshLog[i].req] IN
              f.rcall = i
                => /\ f.calls = 1
                   /\ f.rec = refreshLog[i].rec
                   /\ apiLog[f.call].access = refreshLog[i].rec.access

(* A request whose refresh got an ok response without the tokens has sent  *)
(* its Cursor call with the expired token.                                 *)
C23_Witness ==
  \E r \in Requests :
    /\ fetches[r].pc = "calling"
    /\ fetches[r].rcall # 0
    /\ refreshLog[fetches[r].rcall].answered
    /\ refreshLog[fetches[r].rcall].resp.ok
    /\ ~refreshLog[fetches[r].rcall].resp.access
    /\ fetches[r].rec.expired
    /\ stored = fetches[r].rec

ThreeFailuresGiveNull ==
  streak >= maxConsecutiveErrors => (ppc = "returned" /\ result = "null")

PollAnswered == ppc = "fetching" /\ ppc' # "fetching"

PollOutcome ==
  PollAnswered
    => /\ lastAnswer' = "404" => (ppc' = "sleeping" /\ consecutiveErrors' = 0)
       /\ lastAnswer' = "tokens" => (ppc' = "returned" /\ result' = "tokens")

(* C24: waitForResult takes 404 as pending and polls on with the count of  *)
(* consecutive failures reset, returns the tokens on a success response    *)
(* that carries both, and returns null as soon as three polls in a row     *)
(* have failed with an error other than 404.                               *)
C24_PollOutcomes == []ThreeFailuresGiveNull /\ [][PollOutcome]_vars

PollsBounded ==
  /\ polls <= maxAttempts
  /\ (ppc = "returned" /\ lastAnswer # "tokens") => result = "null"

(* C25: waitForResult terminates whatever the server answers: it makes at  *)
(* most maxAttempts polls (150 when the option is not given) and returns   *)
(* null when no poll succeeded.                                            *)
C25_PollingTerminates == <>(ppc = "returned") /\ []PollsBounded

(* The call without the option has returned null after its 150th poll. *)
C25_Witness ==
  /\ ppc = "returned"
  /\ polls = DefaultMaxAttempts
  /\ result = "null"
  /\ lastAnswer = "404"

(* C26: for every session id of createSessionId and every call base, the   *)
(* session id parsed from makeToolCallId(sid, base) is sid.                *)
C26_ToolCallIdGivesSessionId ==
  cpc = "parsed" => val.parsed = val.sessionId

(* A tool call id whose base holds "__call_" again was parsed. *)
C26_Witness ==
  /\ cpc = "parsed"
  /\ arg.callBase = CallMark \o <<"x">>
  /\ Len(val.parsed) = 12
  /\ \E i \in 1..12 : val.parsed[i] \in Digits

(* C27: for every v in [0, 2^64) the varint encoding of v has between 1    *)
(* and 10 bytes (0 gives 00, 127 gives 7f, 300 gives ac 02) and decoding   *)
(* it gives v back.                                                        *)
C27_VarintRoundTrip ==
  /\ cpc \in {"encoded", "decoded"} =>
       /\ Len(val.bytes) \in 1..10
       /\ arg.v = FromNat(0) => val.bytes = <<0>>
       /\ arg.v = FromNat(127) => val.bytes = <<127>>
       /\ arg.v = FromNat(300) => val.bytes = <<172, 2>>
  /\ cpc = "decoded" => val.decoded = arg.v

(* The value (f << 3) | w of a tag, computed without a width. *)
TagValue(f, w) ==
  BigIntOf([i \in 1..64 |-> IF i <= 3 THEN Bit(w, i)
                            ELSE IF i - 3 <= 31 THEN Bit(f, i - 3) ELSE 0],
           FALSE)

(* C28: for every field number f in [1, 2^29) and wire type w in {0, 2}    *)
(* the field key is the varint of (f << 3) | w, and decoding it gives      *)
(* (f, w) back.                                                            *)
C28_TagRoundTrip ==
  /\ cpc \in {"encoded", "decoded"} =>
       val.bytes = encodeVarint(TagValue(arg.fieldNumber, arg.wireType))
  /\ cpc = "decoded" =>
       /\ val.fieldNumber = arg.fieldNumber
       /\ val.wireType = arg.wireType

(* The encoders of part_000 omit defaults and always emit a message. *)
ExecEncodersOmitDefaults ==
  /\ cpc = "fields" =>
       /\ arg.id = 0 => val.uint32 = <<>>
       /\ arg.int = 0 => val.int32 = <<>>
       /\ arg.text = <<>> => val.string = <<>>
       /\ Len(val.message) >= 2
  /\ cpc = "built" =>
       /\ arg.id = 0 => val.control = <<10, 0>>
       /\ arg.id = 1 => val.control = <<10, 2, 8, 1>>

(* The encoders of scripts/debug-proto-encoding.ts do the same. *)
ScriptEncodersOmitDefaults ==
  /\ cpc = "scriptFields" =>
       /\ arg.id = 0 => val.uint32 = <<>>
       /\ arg.text = <<>> => val.string = <<>>
       /\ Len(val.message) >= 2
  /\ cpc = "scriptBuilt" =>
       /\ arg.id = 0 => val.control = <<10, 0>>
       /\ arg.id = 1 => val.control = <<10, 2, 8, 1>>

(* C29: the field encoders give zero bytes for an integer 0 and for the    *)
(* string "", and always emit a nested message, so that                    *)
(* ExecClientControlMessage{stream_close{id=0}} is 0a 00 and with id=1 it  *)
(* is 0a 02 08 01.                                                         *)
C29_DefaultsOmitted == ExecEncodersOmitDefaults /\ ScriptEncodersOmitDefaults

(* C30: getModelLimits gives the default limits (context 128000, output    *)
(* 16384) for every model id that the mapping does not hold, and gives     *)
(* every -thinking, -high and -codex* variant of the mapping the limits of *)
(* its base model.                                                         *)
C30_ModelLimits ==
  /\ (cpc = "limits" /\ arg.cursorModelId \notin DOMAIN CURSOR_TO_LLM_INFO_MAP) =>
       val.limits = [context |-> 128000, output |-> 16384]
  /\ cpc = "compared" => val.limits = val.baseLimits

(* A variant and its base got the context limit of the table and the       *)
(* default output limit.                                                   *)
C30_Witness ==
  /\ cpc = "compared"
  /\ arg.cursorModelId = "gpt-5.1-codex-max-high"
  /\ val.limits.context # DEFAULT_LIMITS.context
  /\ val.limits.output = DEFAULT_LIMITS.output
  /\ val.baseLimits = val.limits

(* The generator has handled every frame it was given and waits for the    *)
(* next read.                                                              *)
FramesHandled == gpc = "awaitRead" /\ inbox # <<>>

LastFrame == inbox[Len(inbox)]

(* C31: every inbound event other than a heartbeat resets the heartbeat    *)
(* counter and puts the stream in its after-progress phase, a blob get or  *)
(* set included, so that heartbeats separated by blob requests do not add  *)
(* up.                                                                     *)
C31_EveryEventIsProgress ==
  (FramesHandled /\ LastFrame.fields \notin {<<IU(<<Heartbeat(FALSE)>>)>>})
  => (heartbeatSinceProgress = 0 /\ hasProgress)

(* C32: after a text, tool-call (started, partial, completed), exec        *)
(* request, checkpoint, interaction query or abort event the heartbeat     *)
(* counter is 0 and the stream is in its after-progress phase.             *)
C32_ProgressEventsReset ==
  (FramesHandled /\ LastFrame.fields \in ProgressFrames)
  => (heartbeatSinceProgress = 0 /\ hasProgress)

(* Two heartbeats were counted and an abort then reset the counter. *)
C32_Witness ==
  /\ FramesHandled
  /\ Len(inbox) = 3
  /\ inbox[1].fields = <<IU(<<Heartbeat(FALSE)>>)>>
  /\ inbox[2].fields = <<IU(<<Heartbeat(FALSE)>>)>>
  /\ LastFrame.fields = <<Control(1)>>
  /\ heartbeatSinceProgress = 0
  /\ hasProgress
  /\ out[Len(out)] = Chunk("exec_server_abort", "")

(* C33: a trailer yields an error chunk exactly when it has a grpc-status  *)
(* header whose value is not 0, and the error text is the grpc-message     *)
(* value with its escapes decoded.                                         *)
C33_TrailerError ==
  cpc = "yielded" =>
    /\ (val.chunks # <<>>) <=> arg.status \notin {NoHeader, <<"0">>}
    /\ (val.chunks # <<>> /\ arg.message # NoHeader) =>
         val.chunks = <<Chunk("error", arg.message)>>

HasAccessToken == "access" \in DOMAIN arg.auth /\ arg.auth.access # ""

(* The claim as it is worded: refresh exactly when there is no access      *)
(* token or expires <= now + 60000.                                        *)
C34_RefreshExactlyWhenStated ==
  cpc = "sent" =>
    (val.refreshCalls = 1 <=>
       (~HasAccessToken
          \/ ("expires" \in DOMAIN arg.auth /\ arg.auth.expires <= arg.now + 60000)))

(* C34: a refresh is attempted before the request exactly when the         *)
(* credential has no access token, has no expiry time, or expires at or    *)
(* before now + 60000; a token that expires later is used without a        *)
(* refresh call.                                                           *)
C34_RefreshWhenExpired ==
  cpc = "sent" =>
    /\ val.requests = 1
    /\ val.refreshCalls \in {0, 1}
    /\ val.refreshCalls = 1 <=>
         (~HasAccessToken \/ "expires" \notin DOMAIN arg.auth
            \/ arg.auth.expires <= arg.now + 60000)

(* A token that expires exactly 60000 ms from now was refreshed. *)
C34_Witness ==
  /\ cpc = "sent"
  /\ HasAccessToken
  /\ "expires" \in DOMAIN arg.auth
  /\ arg.auth.expires = arg.now + 60000
  /\ val.refreshCalls = 1

(* C35: for every refresh token r without a bar and every api key k that   *)
(* is not empty, a bar in k or not, decoding the stored form of (r, k)     *)
(* gives (r, k); a stored value without a bar gives r and no api key.      *)
C35_RefreshPartsRoundTrip ==
  cpc = "parsed" =>
    /\ ("apiKey" \in DOMAIN arg /\ arg.apiKey # <<>>) =>
         val.parts = [refreshToken |-> arg.refreshToken, apiKey |-> arg.apiKey]
    /\ (\A i \in 1..Len(val.refresh) : val.refresh[i] # "|") =>
         val.parts = [refreshToken |-> val.refresh]

(* The result appends for exec e that the server has accepted. *)
ResultsDelivered(e) ==
  {i \in 1..Len(wire) : wire[i].kind = "result" /\ wire[i].id = e /\ wire[i].st = "ok"}

(* C36: each exec request gets at most one result append over the life of  *)
(* its session, whatever tool messages arrive: a tool_call_id repeated in  *)
(* one call or in several, or a retry after a failed send, gives no second *)
(* result for the same exec id.                                            *)
C36_AtMostOneResultPerExec ==
  \A e \in Execs : Cardinality(ResultsDelivered(e)) <= 1

(* C37: in every run of chatStream, whatever the stream delivers, at most  *)
(* one done chunk is yielded and no chunk is yielded after it.             *)
C37_DoneIsLast ==
  \A i \in 1..Len(out) : out[i].type = "done" => i = Len(out)

(* A run that yielded text, ended its turn and returned after done. *)
C37_Witness ==
  /\ gpc = "returned"
  /\ turnEnded
  /\ Len(out) >= 2
  /\ out[1].type = "text"
  /\ out[Len(out)] = Chunk("done", "")

(* C38: once authenticateWithApiKey has stored credentials with an API    *)
(* key, a getValidAccessToken that refreshes the tokens leaves the key:   *)
(* getApiKey returns the same key after it as before.                     *)
C38_RefreshKeepsApiKey ==
  [][(/\ cpc = "ready"
      /\ val'.op = "getValidAccessToken"
      /\ val'.refreshed
      /\ JsTruthy(getApiKey(val.mgr).ret))
     => getApiKey(val'.mgr).ret = getApiKey(val.mgr).ret]_vars

(* C39: the fetch wrapper puts the Cursor access token in the             *)
(* Authorization header only of requests whose host is a Cursor API host; *)
(* a request to any other host leaves as the caller made it.              *)
C39_TokenOnlyToCursorHosts ==
  (cpc = "fetched" /\ "sent" \in DOMAIN val) =>
    \/ IsCursorApiHost(UrlHost(val.sent.url))
    \/ val.sent = PlainRequest(arg.url, arg.headers)

IsExpired(session) == arg.now - session.lastActivity > arg.timeoutMs

(* C40: cleanupExpiredSessions removes every session whose idle time      *)
(* now - lastActivity exceeds timeoutMs, also when closing its iterator   *)
(* throws, and leaves every other session as it was, its iterator         *)
(* untouched.                                                             *)
C40_CleanupRemovesExactlyExpired ==
  cpc = "cleaned" =>
    /\ DOMAIN val.sessionMap.entries =
         {id \in DOMAIN arg.sessionMap.entries : ~IsExpired(arg.sessionMap.entries[id])}
    /\ \A id \in DOMAIN val.sessionMap.entries :
         val.sessionMap.entries[id] = arg.sessionMap.entries[id]
    /\ val.sessionMap.keys =
         SelectSeq(arg.sessionMap.keys, LAMBDA k : ~IsExpired(arg.sessionMap.entries[k]))
    /\ \A id \in val.returned : IsExpired(arg.sessionMap.entries[id])

(* A finished cleanup that removed a session whose iterator threw on *)
(* return() and kept a session that was not expired.                 *)
C40_Witness ==
  /\ cpc = "cleaned"
  /\ \E id \in DOMAIN arg.sessionMap.entries :
       /\ IsExpired(arg.sessionMap.entries[id])
       /\ arg.sessionMap.entries[id].iterator = "throws"
       /\ id \in val.warned
       /\ id \notin DOMAIN val.sessionMap.entries
  /\ \E id \in DOMAIN val.sessionMap.entries :
       arg.now - arg.sessionMap.entries[id].lastActivity = arg.timeoutMs

====
